---- MODULE Spec2Model ----
(***************************************************************************)
(* Verification model of the prediction agent's risk-managed execution     *)
(* pipeline (src/src/agents/execution.agent.ts): the WalletSecurityManager *)
(* ledger, the secure-trade-execution tool and the detached                *)
(* TransactionMonitor.                                                     *)
(*                                                                         *)
(* The runtime is single-threaded and cooperative: code between two awaits *)
(* runs atomically, and every await of an external call is a suspension    *)
(* point at which other executions may run.  Each action below is one such *)
(* synchronous segment.  A call of an async method whose body has no await *)
(* (validateTradeAmount, recordTradeStart, recordTradeEnd,                 *)
(* activateEmergencyStop) runs its whole body at the call.                 *)
(***************************************************************************)
EXTENDS Integers, Sequences, FiniteSets, TLC

(***************************************************************************)
(* Program constants                                                       *)
(***************************************************************************)
maxDailySpend == 300
maxSingleTrade == 100
maxConcurrentTrades == 3
maxRetries == 3
confirmationBlocks == 2
\* searchBraveAPI (news-intelligence.tool.ts line 38)
braveMaxRetries == 3
\* reddit-intelligence.tool.ts: RedditApiCircuitBreaker with the default
\* environment, the cache
failureThreshold == 5
recoveryTimeout == 5 * 60000
ttl == 5 * 60 * 1000
max == 100
\* part_006: twitterCache
twitterMax == 50
twitterTtl == 5 * 60 * 1000

(***************************************************************************)
(* Bounds of the model                                                     *)
(***************************************************************************)
\* execute() invocations that may be in flight at the same time
NumExec == 2
\* execute() invocations in one behaviour of interleaved invocations
MaxTrades == 4
\* execute() invocations in one behaviour of invocations with their watches
MaxWatched == 2
\* recordTradeStart calls, and recordTradeEnd calls, of a driver of the
\* security manager
MaxCalls == 3
\* calendar days after the day of construction
MaxDay == 1
\* status polls that fit into transactionTimeoutMs
MaxPolls == 2

\* callers of an intelligence tool that may be in flight at the same time
NumCallers == 2
\* advances of the clock in one behaviour
MaxTicks == 4
\* (market id, query hash) pairs the tools are called with
NumKeys == 1
\* times a run of calls under further keys fills the cache
MaxOthers == 1
\* recovery windows that elapse in one behaviour of the tools
MaxWindows == 1
\* failed calls that the sources' current runs of failed calls add up to
MaxSourceFailures == 5
\* runs of the pipeline
MaxRuns == 2
\* calls of runIteration in flight at once
MaxOverlap == 2

Procs == 1..NumExec
Slots == 1..MaxOverlap
Callers == 1..NumCallers
Keys == 1..NumKeys
TradeIds == 1..MaxTrades

\* amount strings accepted by the input schema /^\d+(\.\d+)?$/, as digit
\* sequences (whole dollars only)
AmountInputs == {<<5, 0>>, <<6, 0>>, <<1, 0, 0>>, <<1, 2, 0>>}
\* the amounts the tool is invoked with
ExecAmounts == {<<1, 0, 0>>, <<1, 2, 0>>}

\* error texts the backend or the persistence layer may report, as word
\* sequences
BackendErrors == {<<"timeout">>, <<"insufficient", "funds">>}
DbError == <<"connection", "refused">>

\* result.result.confirmations || 0
ConfirmationReports == 0..confirmationBlocks

RECURSIVE ParseFloat(_)
ParseFloat(s) ==
  IF s = <<>> THEN 0
  ELSE 10 * ParseFloat(SubSeq(s, 1, Len(s) - 1)) + s[Len(s)]

\* String.prototype.includes, at the granularity of words (case-sensitive)
Includes(msg, w) == \E i \in DOMAIN msg : msg[i] = w

NoMessage == <<>>
MsgWalletAddress == <<"POLYMARKET_WALLET_ADDRESS", "environment", "variable", "is", "required">>
MsgBalanceCheck(e) == <<"Wallet", "balance", "check", "failed:">> \o e
MsgInsufficientBalance == <<"Insufficient", "USDC", "balance:">>

VARIABLES
  \* WalletSecurityManager.securityContext
  dailySpentAmount, concurrentTradesCount, lastResetDate, emergencyStopActive,
  \* environment: the calendar day of new Date(), process.env
  today, walletAddress,
  \* one execute() invocation per slot
  pc, amount, securityValidation, retryCount, executionResult, errorMessage,
  savedTrade, returned,
  \* history of the invocation in a slot
  attempts, endCalls, startCalls, backendCalls,
  \* invocations so far, trade_decisions rows, confirmation watches
  invocations, status, mon, polls, observed, monResult,
  \* Date.now() in ms and the clock advances so far
  now, ticks,
  \* RedditApiCircuitBreaker
  failures, lastFailureTime,
  \* one call of circuitBreaker.execute per caller: its position, a bit that
  \* flips with every call, what the latest call returned
  bpc, callNo, outcome,
  \* history: failed calls in a row, the time of the latest failed call
  streak, lastFailAt,
  \* the LRUCache of reddit-intelligence.tool.ts, least recently used first
  cache,
  \* the latest getCachedResult call: a bit that flips with every call, its
  \* key, what it returned
  lookup,
  \* history: per key the latest setCachedResult (time, data) and whether that
  \* entry was evicted for capacity; runs of calls under further keys
  put, evicted, others,
  \* redditIntelligenceTool.execute per caller: the key of the call, what the
  \* latest call returned
  rkey, rresult,
  \* newsIntelligenceTool.execute and twitterIntelligenceTool.execute, one
  \* call at a time each: position, what the latest call returned
  opc, oresult,
  \* twitterCache, least recently used first
  twitterCache,
  \* history per source: calls in a row in which the source failed, the time
  \* of the latest such call
  srcStreak, srcLastFailAt,
  \* executeAutonomousTradingPipeline, one run at a time: its position, the
  \* runs started so far, stepResults, the fragments the wrappers returned,
  \* the output of the latest run
  wpc, runs, stepResults, newsResult, twitterResult, redditResult, marketResult,
  pipelineResult,
  \* history of the run: per source whether its call is still to come
  \* ("none"), gave data ("ok"), failed inside the tool ("failed") or threw
  \* into the wrapper ("threw")
  sourceOutcome,
  \* process.env.DRY_RUN_MODE
  dryRunMode,
  \* the call of marketDecisionTool.execute and the call of
  \* makeAutonomousDecision of a behaviour: what it was given and returned
  analysis, autonomous,
  \* a call of searchBraveAPI: its position, its retryCount, the status of the
  \* response to each request so far, the waits so far (base delay, jitter),
  \* what it returned
  bravePc, braveRetryCount, braveResponses, braveWaits, braveResult,
  \* startAutonomousLoop: its position; per runIteration in flight its
  \* position, allMarkets, topOpportunities, the index of the market of the
  \* for loop, and whether the pipeline failed for an earlier market
  loopPc, ipc, allMarkets, topOpportunities, position, failedBefore

ledgerVars == <<dailySpentAmount, concurrentTradesCount, lastResetDate, emergencyStopActive>>
envVars == <<today, walletAddress>>
execVars == <<pc, amount, securityValidation, retryCount, executionResult, errorMessage,
              savedTrade, returned>>
histVars == <<attempts, endCalls, startCalls, backendCalls>>
tradeVars == <<invocations, status, mon, polls, observed, monResult>>
clockVars == <<now, ticks>>
breakerVars == <<failures, lastFailureTime>>
callVars == <<bpc, callNo, outcome, streak, lastFailAt>>
\* the state of the execution tool, and the state of the intelligence tools
executionVars == <<ledgerVars, envVars, execVars, histVars, tradeVars>>
cacheVars == <<cache, lookup, put, evicted, others>>
toolVars == <<rkey, rresult, opc, oresult, twitterCache, srcStreak, srcLastFailAt>>
workflowVars == <<wpc, runs, stepResults, newsResult, twitterResult, redditResult,
                  marketResult, pipelineResult, sourceOutcome>>
intelligenceVars == <<clockVars, breakerVars, callVars, cacheVars, toolVars>>
configVars == <<dryRunMode>>
decisionVars == <<analysis, autonomous>>
searchVars == <<bravePc, braveRetryCount, braveResponses, braveWaits, braveResult>>
\* the state of the scheduler and of the calls modelled on their own
loopVars == <<loopPc, ipc, allMarkets, topOpportunities, position, failedBefore>>
runtimeVars == <<searchVars, loopVars>>
sourceVars == <<intelligenceVars, workflowVars, configVars, decisionVars, runtimeVars>>
vars == <<executionVars, sourceVars>>

NoValidation == [valid |-> FALSE, kind |-> "none", amountText |-> <<>>, numbers |-> <<>>]

\* the value execute() returns; path names the return statement: "rejected"
\* (lines 314-329), "result" (lines 493-513), "error" (lines 529-544)
Result(path, success, limitsPassed, error, recorded, monitoring) ==
  [path |-> path, success |-> success, limitsPassed |-> limitsPassed, error |-> error,
   databaseRecorded |-> recorded, monitoringActive |-> monitoring]
NoResult == Result("none", FALSE, FALSE, <<>>, FALSE, FALSE)

\* undefined, as a value without fields
Undefined == <<>>

\* no call was made yet
NoCall == [called |-> FALSE]

\* workflow lines 578-608: stepResults as a run starts
InitialStepResults ==
  [marketDiscovery |-> [passed |-> FALSE],
   researchGathering |-> [completed |-> FALSE, intelligence |-> Undefined],
   decisionAnalysis |-> [completed |-> FALSE, decision |-> Undefined],
   tradeExecution |-> [attempted |-> FALSE, completed |-> FALSE,
                       transactionHash |-> "undefined"],
   performanceTracking |-> [recorded |-> FALSE, databaseUpdated |-> FALSE]]

InitProgram ==
  /\ dailySpentAmount = 0
  /\ concurrentTradesCount = 0
  /\ lastResetDate = 0
  /\ emergencyStopActive = FALSE
  /\ today = 0
  /\ walletAddress \in BOOLEAN
  /\ pc = [p \in Procs |-> "idle"]
  /\ amount = [p \in Procs |-> <<>>]
  /\ securityValidation = [p \in Procs |-> NoValidation]
  /\ retryCount = [p \in Procs |-> 0]
  /\ executionResult = [p \in Procs |-> "none"]
  /\ errorMessage = [p \in Procs |-> NoMessage]
  /\ savedTrade = [p \in Procs |-> 0]
  /\ returned = [p \in Procs |-> NoResult]
  /\ attempts = [p \in Procs |-> 0]
  /\ endCalls = [p \in Procs |-> 0]
  /\ startCalls = [p \in Procs |-> 0]
  /\ backendCalls = [p \in Procs |-> 0]
  /\ invocations = 0
  /\ status = [t \in TradeIds |-> "none"]
  /\ mon = [t \in TradeIds |-> "none"]
  /\ polls = [t \in TradeIds |-> 0]
  /\ observed = [t \in TradeIds |-> 0]
  /\ monResult = [t \in TradeIds |-> "none"]
  /\ now = 0
  /\ ticks = 0
  /\ failures = 0
  /\ lastFailureTime = 0
  /\ bpc = [c \in Callers |-> "idle"]
  /\ callNo = [c \in Callers |-> 0]
  /\ outcome = [c \in Callers |-> "none"]
  /\ streak = 0
  /\ lastFailAt = 0
  /\ cache = <<>>
  /\ lookup = [no |-> 0, key |-> 0, data |-> "null"]
  /\ put = [k \in Keys |-> [at |-> -1, data |-> "null"]]
  /\ evicted = [k \in Keys |-> FALSE]
  /\ others = 0
  /\ rkey = [c \in Callers |-> 0]
  /\ rresult = [c \in Callers |-> [sources |-> "none", data |-> "null", cached |-> FALSE, why |-> "none"]]
  /\ opc = [s \in {"news", "twitter"} |-> "idle"]
  /\ oresult = [s \in {"news", "twitter"} |->
                  [sources |-> "none", data |-> "null", cached |-> FALSE, why |-> "none"]]
  /\ twitterCache = <<>>
  /\ srcStreak = [s \in {"news", "twitter", "reddit"} |-> 0]
  /\ srcLastFailAt = [s \in {"news", "twitter", "reddit"} |-> 0]
  /\ wpc = "idle"
  /\ runs = 0
  /\ stepResults = InitialStepResults
  /\ newsResult = Undefined
  /\ twitterResult = Undefined
  /\ redditResult = Undefined
  /\ marketResult = Undefined
  /\ pipelineResult = Undefined
  /\ sourceOutcome = [s \in {"news", "twitter", "reddit", "market"} |-> "none"]
  /\ analysis = NoCall
  /\ autonomous = NoCall
  /\ bravePc = "idle"
  /\ braveRetryCount = 0
  /\ braveResponses = <<>>
  /\ braveWaits = <<>>
  /\ braveResult = Undefined
  /\ loopPc = "idle"
  /\ ipc = [i \in Slots |-> "idle"]
  /\ allMarkets = [i \in Slots |-> <<>>]
  /\ topOpportunities = [i \in Slots |-> <<>>]
  /\ position = [i \in Slots |-> 0]
  /\ failedBefore = [i \in Slots |-> FALSE]

\* .env.example line 81: DRY_RUN_MODE=true
Init == InitProgram /\ dryRunMode = TRUE

\* DRY_RUN_MODE set either way
InitDryRun == InitProgram /\ dryRunMode \in BOOLEAN

(***************************************************************************)
(* WalletSecurityManager                                                   *)
(***************************************************************************)
Accept == [valid |-> TRUE, kind |-> "ok", amountText |-> <<>>, numbers |-> <<>>]
Reject(kind, text, nums) == [valid |-> FALSE, kind |-> kind, amountText |-> text, numbers |-> nums]

\* the rollover left out
SpentAfterRollover_Never(day, resetDate, spent) == spent

\* lines 161-166: the daily counter as the checks of this call see it
SpentAfterRollover(day, resetDate, spent) == IF day # resetDate THEN 0 ELSE spent

\* the daily cap checked before the per-trade cap
ValidationOf_DailyFirst(stopped, amt, spent, count) ==
  IF stopped
    THEN Reject("emergency", <<>>, <<>>)
  ELSE IF spent + ParseFloat(amt) > maxDailySpend
    THEN Reject("daily", <<>>, <<spent, ParseFloat(amt), maxDailySpend>>)
  ELSE IF ParseFloat(amt) > maxSingleTrade
    THEN Reject("single", amt, <<maxSingleTrade>>)
  ELSE IF count >= maxConcurrentTrades
    THEN Reject("concurrent", <<>>, <<maxConcurrentTrades>>)
  ELSE Accept

\* the emergency-stop check left out
ValidationOf_NoStopCheck(stopped, amt, spent, count) ==
  IF ParseFloat(amt) > maxSingleTrade
    THEN Reject("single", amt, <<maxSingleTrade>>)
  ELSE IF spent + ParseFloat(amt) > maxDailySpend
    THEN Reject("daily", <<>>, <<spent, ParseFloat(amt), maxDailySpend>>)
  ELSE IF count >= maxConcurrentTrades
    THEN Reject("concurrent", <<>>, <<maxConcurrentTrades>>)
  ELSE Accept

\* lines 155-192: the result of validateTradeAmount(amt); spent is the daily
\* counter after the rollover of lines 161-166
ValidationOf(stopped, amt, spent, count) ==
  IF stopped
    THEN Reject("emergency", <<>>, <<>>)
  ELSE IF ParseFloat(amt) > maxSingleTrade
    THEN Reject("single", amt, <<maxSingleTrade>>)
  ELSE IF spent + ParseFloat(amt) > maxDailySpend
    THEN Reject("daily", <<>>, <<spent, ParseFloat(amt), maxDailySpend>>)
  ELSE IF count >= maxConcurrentTrades
    THEN Reject("concurrent", <<>>, <<maxConcurrentTrades>>)
  ELSE Accept

\* lines 154-193: validateTradeAmount(amt), called by p
validateTradeAmount(p, amt) ==
  LET spent == SpentAfterRollover(today, lastResetDate, dailySpentAmount) IN
  /\ securityValidation' = [securityValidation EXCEPT ![p] =
       ValidationOf(emergencyStopActive, amt, spent, concurrentTradesCount)]
  /\ dailySpentAmount' = IF emergencyStopActive THEN dailySpentAmount ELSE spent
  /\ lastResetDate' = IF emergencyStopActive THEN lastResetDate ELSE today

\* lines 195-198
recordTradeStart(amt) ==
  /\ dailySpentAmount' = dailySpentAmount + ParseFloat(amt)
  /\ concurrentTradesCount' = concurrentTradesCount + 1

\* the floor left out
SlotsAfterEnd_Unfloored(count) == count - 1

\* Math.max(0, count - 1)
SlotsAfterEnd(count) == IF count - 1 > 0 THEN count - 1 ELSE 0

\* lines 200-202
recordTradeEnd ==
  concurrentTradesCount' = SlotsAfterEnd(concurrentTradesCount)

\* lines 204-208
activateEmergencyStop ==
  emergencyStopActive' = TRUE

\* line 525
IsCritical(msg) == Includes(msg, "insufficient") \/ Includes(msg, "unauthorized")

(***************************************************************************)
(* tradeExecutionTool.execute                                              *)
(***************************************************************************)
NextTradeId == Cardinality({t \in TradeIds : status[t] # "none"}) + 1

Succeeded(res) == res \in {"success", "successNoHash"}

\* retries < maxRetries
LoopCondition_OffByOne(retries, res) == retries < maxRetries /\ ~Succeeded(res)

\* line 375
LoopCondition(retries, res) == retries <= maxRetries /\ ~Succeeded(res)

\* line 444
RetryAllowed(retries) == retries <= maxRetries

\* a catch that does not call recordTradeEnd
Throw_NoRecordEnd(p, msg) ==
  /\ errorMessage' = [errorMessage EXCEPT ![p] = msg]
  /\ pc' = [pc EXCEPT ![p] = "catch"]
  /\ UNCHANGED <<concurrentTradesCount, endCalls>>

\* an exception reaches the catch of lines 515-522: recordTradeEnd is called
\* and awaited
Throw(p, msg) ==
  /\ errorMessage' = [errorMessage EXCEPT ![p] = msg]
  /\ recordTradeEnd
  /\ endCalls' = [endCalls EXCEPT ![p] = @ + 1]
  /\ pc' = [pc EXCEPT ![p] = "catch"]

\* lines 295-311: the tool is invoked with an amount; validateTradeAmount runs
\* at the call
Execute(p, amt, limit) ==
  /\ pc[p] \in {"idle", "done"}
  /\ invocations < limit
  /\ invocations' = invocations + 1
  /\ amount' = [amount EXCEPT ![p] = amt]
  /\ retryCount' = [retryCount EXCEPT ![p] = 0]
  /\ executionResult' = [executionResult EXCEPT ![p] = "none"]
  /\ errorMessage' = [errorMessage EXCEPT ![p] = NoMessage]
  /\ savedTrade' = [savedTrade EXCEPT ![p] = 0]
  /\ returned' = [returned EXCEPT ![p] = NoResult]
  /\ attempts' = [attempts EXCEPT ![p] = 0]
  /\ endCalls' = [endCalls EXCEPT ![p] = 0]
  /\ startCalls' = [startCalls EXCEPT ![p] = 0]
  /\ backendCalls' = [backendCalls EXCEPT ![p] = 0]
  /\ validateTradeAmount(p, amt)
  /\ pc' = [pc EXCEPT ![p] = "validated"]
  /\ UNCHANGED <<concurrentTradesCount, emergencyStopActive, envVars,
                 status, mon, polls, observed, monResult>>
  /\ UNCHANGED sourceVars

\* the locals of an invocation are gone once it has returned
Forget(p) ==
  /\ amount' = [amount EXCEPT ![p] = <<>>]
  /\ securityValidation' = [securityValidation EXCEPT ![p] = NoValidation]
  /\ retryCount' = [retryCount EXCEPT ![p] = 0]
  /\ executionResult' = [executionResult EXCEPT ![p] = "none"]
  /\ errorMessage' = [errorMessage EXCEPT ![p] = NoMessage]
  /\ savedTrade' = [savedTrade EXCEPT ![p] = 0]
  /\ attempts' = [attempts EXCEPT ![p] = 0]
  /\ backendCalls' = [backendCalls EXCEPT ![p] = 0]

\* lines 313-330
ReturnRejected(p) ==
  /\ pc[p] = "validated"
  /\ ~securityValidation[p].valid
  /\ returned' = [returned EXCEPT ![p] =
       Result("rejected", FALSE, FALSE, <<securityValidation[p].kind>>, FALSE, FALSE)]
  /\ pc' = [pc EXCEPT ![p] = "done"]
  /\ Forget(p)
  /\ UNCHANGED <<ledgerVars, envVars, endCalls, startCalls, tradeVars>>
  /\ UNCHANGED sourceVars

\* lines 334-337
WalletAddressMissing(p) ==
  /\ pc[p] = "validated"
  /\ securityValidation[p].valid
  /\ ~walletAddress
  /\ Throw(p, MsgWalletAddress)
  /\ UNCHANGED <<dailySpentAmount, lastResetDate, emergencyStopActive, envVars,
                 amount, securityValidation, retryCount, executionResult, savedTrade,
                 returned, attempts, startCalls, backendCalls, tradeVars>>
  /\ UNCHANGED sourceVars

\* the balance query issued whatever the validation said
RequestBalance_Unchecked(p) ==
  /\ pc[p] = "validated"
  /\ walletAddress
  /\ backendCalls' = [backendCalls EXCEPT ![p] = @ + 1]
  /\ pc' = [pc EXCEPT ![p] = "balance"]
  /\ UNCHANGED <<ledgerVars, envVars, amount, securityValidation, retryCount,
                 executionResult, errorMessage, savedTrade, returned,
                 attempts, endCalls, startCalls, tradeVars>>
  /\ UNCHANGED sourceVars

\* lines 339-342
RequestBalance(p) ==
  /\ pc[p] = "validated"
  /\ securityValidation[p].valid
  /\ walletAddress
  /\ backendCalls' = [backendCalls EXCEPT ![p] = @ + 1]
  /\ pc' = [pc EXCEPT ![p] = "balance"]
  /\ UNCHANGED <<ledgerVars, envVars, amount, securityValidation, retryCount,
                 executionResult, errorMessage, savedTrade, returned,
                 attempts, endCalls, startCalls, tradeVars>>
  /\ UNCHANGED sourceVars

\* lines 344-346
BalanceCheckFailed(p) ==
  /\ pc[p] = "balance"
  /\ \E e \in BackendErrors : Throw(p, MsgBalanceCheck(e))
  /\ UNCHANGED <<dailySpentAmount, lastResetDate, emergencyStopActive, envVars,
                 amount, securityValidation, retryCount, executionResult, savedTrade,
                 returned, attempts, startCalls, backendCalls, tradeVars>>
  /\ UNCHANGED sourceVars

\* lines 348-353
BalanceTooLow(p) ==
  /\ pc[p] = "balance"
  /\ Throw(p, MsgInsufficientBalance)
  /\ UNCHANGED <<dailySpentAmount, lastResetDate, emergencyStopActive, envVars,
                 amount, securityValidation, retryCount, executionResult, savedTrade,
                 returned, attempts, startCalls, backendCalls, tradeVars>>
  /\ UNCHANGED sourceVars

\* lines 348-356
BalanceSufficient(p) ==
  /\ pc[p] = "balance"
  /\ recordTradeStart(amount[p])
  /\ startCalls' = [startCalls EXCEPT ![p] = @ + 1]
  /\ pc' = [pc EXCEPT ![p] = "started"]
  /\ UNCHANGED <<lastResetDate, emergencyStopActive, envVars, amount,
                 securityValidation, retryCount, executionResult, errorMessage,
                 savedTrade, returned, attempts, endCalls, backendCalls, tradeVars>>
  /\ UNCHANGED sourceVars

\* lines 458-490: after the retry loop.  A submitted trade with a transaction
\* hash gets a detached confirmation watch (its first get_transaction call is
\* issued at once) and recordTradeEnd is called; otherwise the FAILED write is
\* issued and awaited
AfterLoop(p, res) ==
  IF res = "success"
    THEN /\ mon' = [mon EXCEPT ![savedTrade[p]] = "polling"]
         /\ polls' = [polls EXCEPT ![savedTrade[p]] = 1]
         /\ recordTradeEnd
         /\ endCalls' = [endCalls EXCEPT ![p] = @ + 1]
         /\ pc' = [pc EXCEPT ![p] = "ending"]
    ELSE /\ pc' = [pc EXCEPT ![p] = "markFailed"]
         /\ UNCHANGED <<mon, polls, endCalls, concurrentTradesCount>>

\* lines 375-384: the loop condition is evaluated with retryCount = retries and
\* executionResult = res; a further attempt begins with the approval call
LoopHead(p, retries, res) ==
  /\ retryCount' = [retryCount EXCEPT ![p] = retries]
  /\ executionResult' = [executionResult EXCEPT ![p] = res]
  /\ IF LoopCondition(retries, res)
       THEN /\ attempts' = [attempts EXCEPT ![p] = @ + 1]
            /\ backendCalls' = [backendCalls EXCEPT ![p] = @ + 1]
            /\ pc' = [pc EXCEPT ![p] = "approve"]
            /\ UNCHANGED <<mon, polls, endCalls, concurrentTradesCount>>
       ELSE /\ AfterLoop(p, res)
            /\ UNCHANGED <<attempts, backendCalls>>

\* lines 439-455: the catch of one attempt
AttemptFailed(p) ==
  LET retries == retryCount[p] + 1 IN
  IF RetryAllowed(retries)
    THEN /\ retryCount' = [retryCount EXCEPT ![p] = retries]
         /\ pc' = [pc EXCEPT ![p] = "retryDelay"]
         /\ UNCHANGED <<executionResult, attempts, backendCalls, mon, polls,
                        endCalls, concurrentTradesCount>>
    ELSE LoopHead(p, retries, "failed")

\* lines 358-370, 373-384: tradeRepo.create returns the PENDING row
TradeCreated(p) ==
  /\ pc[p] = "started"
  /\ status' = [status EXCEPT ![NextTradeId] = "PENDING"]
  /\ savedTrade' = [savedTrade EXCEPT ![p] = NextTradeId]
  /\ LoopHead(p, retryCount[p], executionResult[p])
  /\ UNCHANGED <<dailySpentAmount, lastResetDate, emergencyStopActive, envVars,
                 amount, securityValidation, errorMessage, returned, startCalls,
                 invocations, observed, monResult>>
  /\ UNCHANGED sourceVars

\* line 370: tradeRepo.create throws
CreateFailed(p) ==
  /\ pc[p] = "started"
  /\ Throw(p, DbError)
  /\ UNCHANGED <<dailySpentAmount, lastResetDate, emergencyStopActive, envVars,
                 amount, securityValidation, retryCount, executionResult, savedTrade,
                 returned, attempts, startCalls, backendCalls, tradeVars>>
  /\ UNCHANGED sourceVars

\* lines 380-388, 411: the approval succeeded, write_contract is called
ApprovalSucceeded(p) ==
  /\ pc[p] = "approve"
  /\ backendCalls' = [backendCalls EXCEPT ![p] = @ + 1]
  /\ pc' = [pc EXCEPT ![p] = "submit"]
  /\ UNCHANGED <<ledgerVars, envVars, amount, securityValidation, retryCount,
                 executionResult, errorMessage, savedTrade, returned,
                 attempts, endCalls, startCalls, tradeVars>>
  /\ UNCHANGED sourceVars

\* lines 386-388
ApprovalFailed(p) ==
  /\ pc[p] = "approve"
  /\ AttemptFailed(p)
  /\ UNCHANGED <<dailySpentAmount, lastResetDate, emergencyStopActive, envVars,
                 amount, securityValidation, errorMessage, savedTrade, returned,
                 startCalls, invocations, status, observed, monResult>>
  /\ UNCHANGED sourceVars

\* lines 421-434: the submission succeeded (break); hash tells whether the
\* backend's result carries a transactionHash
SubmissionSucceeded(p, hash) ==
  /\ pc[p] = "submit"
  /\ LET res == IF hash THEN "success" ELSE "successNoHash" IN
       /\ executionResult' = [executionResult EXCEPT ![p] = res]
       /\ AfterLoop(p, res)
  /\ UNCHANGED <<dailySpentAmount, lastResetDate, emergencyStopActive, envVars,
                 amount, securityValidation, retryCount, errorMessage, savedTrade,
                 returned, attempts, startCalls, backendCalls, invocations, status,
                 observed, monResult>>
  /\ UNCHANGED sourceVars

\* lines 435-437
SubmissionFailed(p) ==
  /\ pc[p] = "submit"
  /\ AttemptFailed(p)
  /\ UNCHANGED <<dailySpentAmount, lastResetDate, emergencyStopActive, envVars,
                 amount, securityValidation, errorMessage, savedTrade, returned,
                 startCalls, invocations, status, observed, monResult>>
  /\ UNCHANGED sourceVars

\* line 446: the retry delay has elapsed
RetryDelayElapsed(p) ==
  /\ pc[p] = "retryDelay"
  /\ LoopHead(p, retryCount[p], executionResult[p])
  /\ UNCHANGED <<dailySpentAmount, lastResetDate, emergencyStopActive, envVars,
                 amount, securityValidation, errorMessage, savedTrade, returned,
                 startCalls, invocations, status, observed, monResult>>
  /\ UNCHANGED sourceVars

\* lines 486-490: the FAILED write returned, recordTradeEnd is called
FailureWritten(p) ==
  /\ pc[p] = "markFailed"
  /\ status' = [status EXCEPT ![savedTrade[p]] = "FAILED"]
  /\ recordTradeEnd
  /\ endCalls' = [endCalls EXCEPT ![p] = @ + 1]
  /\ pc' = [pc EXCEPT ![p] = "ending"]
  /\ UNCHANGED <<dailySpentAmount, lastResetDate, emergencyStopActive, envVars,
                 amount, securityValidation, retryCount, executionResult,
                 errorMessage, savedTrade, returned, attempts, startCalls,
                 backendCalls, invocations, mon, polls, observed, monResult>>
  /\ UNCHANGED sourceVars

\* line 486: tradeRepo.updateStatus throws
FailureWriteFailed(p) ==
  /\ pc[p] = "markFailed"
  /\ Throw(p, DbError)
  /\ UNCHANGED <<dailySpentAmount, lastResetDate, emergencyStopActive, envVars,
                 amount, securityValidation, retryCount, executionResult, savedTrade,
                 returned, attempts, startCalls, backendCalls, tradeVars>>
  /\ UNCHANGED sourceVars

\* lines 492-513
ReturnResult(p) ==
  /\ pc[p] = "ending"
  /\ returned' = [returned EXCEPT ![p] =
       Result("result", Succeeded(executionResult[p]), TRUE, <<executionResult[p]>>,
              TRUE, executionResult[p] = "success")]
  /\ pc' = [pc EXCEPT ![p] = "done"]
  /\ Forget(p)
  /\ UNCHANGED <<ledgerVars, envVars, endCalls, startCalls, tradeVars>>
  /\ UNCHANGED sourceVars

\* lines 524-545: after the awaited recordTradeEnd of the catch
ReturnError(p) ==
  /\ pc[p] = "catch"
  /\ IF IsCritical(errorMessage[p])
       THEN activateEmergencyStop
       ELSE UNCHANGED emergencyStopActive
  /\ returned' = [returned EXCEPT ![p] =
       Result("error", FALSE, FALSE, errorMessage[p], FALSE, FALSE)]
  /\ pc' = [pc EXCEPT ![p] = "done"]
  /\ Forget(p)
  /\ UNCHANGED <<dailySpentAmount, concurrentTradesCount, lastResetDate, envVars,
                 endCalls, startCalls, tradeVars>>
  /\ UNCHANGED sourceVars

(***************************************************************************)
(* TransactionMonitor.waitForConfirmation and the handlers of lines        *)
(* 465-483, one detached watch per submitted trade                         *)
(***************************************************************************)
\* any confirmation counts
Confirmed_Any(confirmations) == confirmations >= 1

\* line 237
Confirmed(confirmations) == confirmations >= confirmationBlocks

\* lines 232-242: get_transaction succeeded and reports c confirmations
StatusReported(t, c) ==
  /\ mon[t] = "polling"
  /\ observed' = [observed EXCEPT ![t] = IF Confirmed(c) THEN c ELSE @]
  /\ IF Confirmed(c)
       THEN /\ monResult' = [monResult EXCEPT ![t] = "confirmed"]
            /\ mon' = [mon EXCEPT ![t] = "write"]
            /\ polls' = [polls EXCEPT ![t] = 0]
       ELSE /\ mon' = [mon EXCEPT ![t] = "sleeping"]
            /\ UNCHANGED <<monResult, polls>>
  /\ UNCHANGED <<ledgerVars, envVars, execVars, histVars, invocations, status>>
  /\ UNCHANGED sourceVars

\* lines 243-245: get_transaction did not succeed
StatusCheckFailed(t) ==
  /\ mon[t] = "polling"
  /\ monResult' = [monResult EXCEPT ![t] = "statusFailed"]
  /\ mon' = [mon EXCEPT ![t] = "write"]
  /\ polls' = [polls EXCEPT ![t] = 0]
  /\ UNCHANGED <<ledgerVars, envVars, execVars, histVars, invocations, status,
                 observed>>
  /\ UNCHANGED sourceVars

\* lines 230-232, 242: the 10 s interval elapsed within the timeout
PollAgain(t) ==
  /\ mon[t] = "sleeping"
  /\ polls[t] < MaxPolls
  /\ polls' = [polls EXCEPT ![t] = @ + 1]
  /\ mon' = [mon EXCEPT ![t] = "polling"]
  /\ UNCHANGED <<ledgerVars, envVars, execVars, histVars, invocations, status,
                 observed, monResult>>
  /\ UNCHANGED sourceVars

\* lines 230, 253: the timeout elapsed
WatchTimedOut(t) ==
  /\ mon[t] = "sleeping"
  /\ monResult' = [monResult EXCEPT ![t] = "timeout"]
  /\ mon' = [mon EXCEPT ![t] = "write"]
  /\ polls' = [polls EXCEPT ![t] = 0]
  /\ UNCHANGED <<ledgerVars, envVars, execVars, histVars, invocations, status,
                 observed>>
  /\ UNCHANGED sourceVars

\* lines 467-477: the status the then-handler writes
WatchStatus(result) == IF result = "confirmed" THEN "EXECUTED" ELSE "FAILED"

\* lines 466-478: the write of the then-handler returned
WatchWritten(t) ==
  /\ mon[t] = "write"
  /\ status' = [status EXCEPT ![t] = WatchStatus(monResult[t])]
  /\ mon' = [mon EXCEPT ![t] = "done"]
  /\ UNCHANGED <<ledgerVars, envVars, execVars, histVars, invocations, polls,
                 observed, monResult>>
  /\ UNCHANGED sourceVars

\* lines 479-483: the write of the then-handler threw, the catch-handler
\* issues a FAILED write
WatchWriteFailed(t) ==
  /\ mon[t] = "write"
  /\ mon' = [mon EXCEPT ![t] = "catchWrite"]
  /\ UNCHANGED <<ledgerVars, envVars, execVars, histVars, invocations, status,
                 polls, observed, monResult>>
  /\ UNCHANGED sourceVars

\* line 482: the write of the catch-handler returned, or threw (rejection
\* unhandled, the row keeps its status)
CatchWritten(t, ok) ==
  /\ mon[t] = "catchWrite"
  /\ status' = [status EXCEPT ![t] = IF ok THEN "FAILED" ELSE @]
  /\ mon' = [mon EXCEPT ![t] = "done"]
  /\ UNCHANGED <<ledgerVars, envVars, execVars, histVars, invocations, polls,
                 observed, monResult>>
  /\ UNCHANGED sourceVars

\* the calendar day of new Date() changes
DayChange ==
  /\ today < MaxDay
  /\ today' = today + 1
  /\ UNCHANGED <<ledgerVars, walletAddress, execVars, histVars, tradeVars>>
  /\ UNCHANGED sourceVars

ExecStep(p, limit) ==
  \/ \E amt \in ExecAmounts : Execute(p, amt, limit)
  \/ ReturnRejected(p)
  \/ WalletAddressMissing(p)
  \/ RequestBalance(p)
  \/ BalanceCheckFailed(p)
  \/ BalanceTooLow(p)
  \/ BalanceSufficient(p)
  \/ TradeCreated(p)
  \/ CreateFailed(p)
  \/ ApprovalSucceeded(p)
  \/ ApprovalFailed(p)
  \/ \E hash \in BOOLEAN : SubmissionSucceeded(p, hash)
  \/ SubmissionFailed(p)
  \/ RetryDelayElapsed(p)
  \/ FailureWritten(p)
  \/ FailureWriteFailed(p)
  \/ ReturnResult(p)
  \/ ReturnError(p)

WatchStep(t) ==
  \/ \E c \in ConfirmationReports : StatusReported(t, c)
  \/ StatusCheckFailed(t)
  \/ PollAgain(t)
  \/ WatchTimedOut(t)
  \/ WatchWritten(t)
  \/ WatchWriteFailed(t)
  \/ \E ok \in BOOLEAN : CatchWritten(t, ok)

\* invocations one after the other, with their detached watches
Next ==
  \/ ExecStep(1, MaxWatched)
  \/ \E t \in TradeIds : WatchStep(t)
  \/ DayChange

Spec == Init /\ [][Next]_vars

\* the event loop runs every continuation that is ready: an invocation's next
\* segment and a watch's next segment are taken once their await has settled
Fairness ==
  /\ WF_vars(ExecStep(1, MaxWatched))
  /\ \A t \in TradeIds : WF_vars(WatchStep(t))

SpecFair == Spec /\ Fairness

\* invocations interleaved at their suspension points within one calendar
\* day; the watches, which touch neither the ledger nor an invocation, are
\* left out
NextConcurrent == \E p \in Procs : ExecStep(p, MaxTrades)

SpecConcurrent == Init /\ [][NextConcurrent]_vars

(***************************************************************************)
(* The WalletSecurityManager on its own: a driver calls its methods in any *)
(* order with any amount.  The driver is caller 1; startCalls and endCalls *)
(* count its recordTradeStart and recordTradeEnd calls.                    *)
(***************************************************************************)
DriverValidate(amt) ==
  /\ validateTradeAmount(1, amt)
  /\ amount' = [amount EXCEPT ![1] = amt]
  /\ UNCHANGED <<concurrentTradesCount, emergencyStopActive, envVars, pc, retryCount,
                 executionResult, errorMessage, savedTrade, returned, histVars,
                 tradeVars>>
  /\ UNCHANGED sourceVars

DriverRecordStart(amt) ==
  /\ startCalls[1] < MaxCalls
  /\ recordTradeStart(amt)
  /\ startCalls' = [startCalls EXCEPT ![1] = @ + 1]
  /\ UNCHANGED <<lastResetDate, emergencyStopActive, envVars, execVars, attempts,
                 endCalls, backendCalls, tradeVars>>
  /\ UNCHANGED sourceVars

DriverRecordEnd ==
  /\ endCalls[1] < MaxCalls
  /\ recordTradeEnd
  /\ endCalls' = [endCalls EXCEPT ![1] = @ + 1]
  /\ UNCHANGED <<dailySpentAmount, lastResetDate, emergencyStopActive, envVars,
                 execVars, attempts, startCalls, backendCalls, tradeVars>>
  /\ UNCHANGED sourceVars

DriverEmergencyStop ==
  /\ activateEmergencyStop
  /\ UNCHANGED <<dailySpentAmount, concurrentTradesCount, lastResetDate, envVars,
                 execVars, histVars, tradeVars>>
  /\ UNCHANGED sourceVars

NextManager ==
  \/ \E amt \in AmountInputs : DriverValidate(amt)
  \/ \E amt \in AmountInputs : DriverRecordStart(amt)
  \/ DriverRecordEnd
  \/ DriverEmergencyStop
  \/ DayChange

SpecManager == Init /\ [][NextManager]_vars

(***************************************************************************)
(* reddit-intelligence.tool.ts: RedditApiCircuitBreaker.  execute() checks  *)
(* isOpen at the call and awaits the wrapped operation; onSuccess or       *)
(* onFailure runs when the operation settles.                              *)
(***************************************************************************)
\* durations by which the clock advances
Durations == {1, recoveryTimeout - 1}

\* open one failure late
isOpen_Late(count, last, time) ==
  count > failureThreshold /\ (time - last) < recoveryTimeout

\* lines 77-80
isOpen(count, last, time) ==
  count >= failureThreshold /\ (time - last) < recoveryTimeout

\* lines 82-84
onSuccess ==
  /\ failures' = 0
  /\ UNCHANGED lastFailureTime

\* a failure that leaves the timestamp alone
onFailure_Stale ==
  /\ failures' = failures + 1
  /\ UNCHANGED lastFailureTime

\* lines 86-89
onFailure ==
  /\ failures' = failures + 1
  /\ lastFailureTime' = now

\* lines 61-68: execute() is called; an open breaker returns the fallback,
\* otherwise the operation is invoked
BreakerCall(c) ==
  /\ bpc[c] = "idle"
  /\ callNo' = [callNo EXCEPT ![c] = 1 - @]
  /\ IF isOpen(failures, lastFailureTime, now)
       THEN /\ outcome' = [outcome EXCEPT ![c] = "fallback"]
            /\ UNCHANGED bpc
       ELSE /\ outcome' = [outcome EXCEPT ![c] = "none"]
            /\ bpc' = [bpc EXCEPT ![c] = "operation"]
  /\ UNCHANGED <<breakerVars, streak, lastFailAt>>

\* lines 68-70: the operation fulfilled
Fulfilled(c) ==
  /\ bpc[c] = "operation"
  /\ onSuccess
  /\ streak' = 0
  /\ outcome' = [outcome EXCEPT ![c] = "result"]
  /\ UNCHANGED <<callNo, lastFailAt>>

\* lines 71-74: the operation rejected, the error is thrown on
Rejected(c) ==
  /\ bpc[c] = "operation"
  /\ onFailure
  /\ streak' = streak + 1
  /\ lastFailAt' = now
  /\ outcome' = [outcome EXCEPT ![c] = "thrown"]
  /\ UNCHANGED callNo

\* execute() returns the result to a caller of the breaker on its own
OperationFulfilled(c) ==
  /\ Fulfilled(c)
  /\ bpc' = [bpc EXCEPT ![c] = "idle"]

\* execute() throws to a caller of the breaker on its own
OperationRejected(c) ==
  /\ Rejected(c)
  /\ bpc' = [bpc EXCEPT ![c] = "idle"]

\* Date.now() moves on
Advance(d) ==
  /\ ticks < MaxTicks
  /\ ticks' = ticks + 1
  /\ now' = now + d

\* callers of the breaker on its own
NextBreaker ==
  \/ \E c \in Callers : BreakerCall(c) /\ UNCHANGED <<configVars, decisionVars, runtimeVars, workflowVars, executionVars, clockVars, cacheVars, toolVars>>
  \/ \E c \in Callers : OperationFulfilled(c) /\ UNCHANGED <<configVars, decisionVars, runtimeVars, workflowVars, executionVars, clockVars, cacheVars, toolVars>>
  \/ \E c \in Callers : OperationRejected(c) /\ UNCHANGED <<configVars, decisionVars, runtimeVars, workflowVars, executionVars, clockVars, cacheVars, toolVars>>
  \/ \E d \in Durations : Advance(d) /\ UNCHANGED <<configVars, decisionVars, runtimeVars, workflowVars, executionVars, breakerVars, callVars, cacheVars, toolVars>>

SpecBreaker == Init /\ [][NextBreaker]_vars

(***************************************************************************)
(* reddit-intelligence.tool.ts: the cache.  An LRUCache (max entries, ttl)  *)
(* holding {data, timestamp} under the key reddit:<marketId>:<queryHash>,    *)
(* read by getCachedResult and written by setCachedResult.                 *)
(***************************************************************************)
\* what a tool hands back: a neutral fragment (sentiment 0, confidence 0) or
\* one with a signal
Data == {"neutral", "signal"}

\* a key of a call other than the ones in Keys
OtherKey == 0

Entry(k, data, time) == [key |-> k, data |-> data, timestamp |-> time]

\* position of the entry with key k, 0 if there is none
Find(c, k) ==
  IF \E i \in DOMAIN c : c[i].key = k
    THEN CHOOSE i \in DOMAIN c : c[i].key = k
    ELSE 0

Remove(c, i) == SubSeq(c, 1, i - 1) \o SubSeq(c, i + 1, Len(c))

\* LRUCache.set: an existing key is replaced and becomes the most recently
\* used; a new key evicts the least recently used entry of a full cache
LruSet(c, e, capacity) ==
  LET i == IF e.key = OtherKey THEN 0 ELSE Find(c, e.key) IN
  IF i # 0 THEN Append(Remove(c, i), e)
  ELSE IF Len(c) >= capacity THEN Append(Tail(c), e)
  ELSE Append(c, e)

\* stale one millisecond before the ttl
Stale_Early(e, time) == time - e.timestamp > ttl - 2

\* LRUCache: an entry is stale once its age exceeds the ttl
Stale(e, time) == time - e.timestamp > ttl

\* LRUCache.get: the cache afterwards; a stale entry is deleted, a served one
\* becomes the most recently used
LruGetCache(c, k, time) ==
  LET i == Find(c, k) IN
  IF i = 0 THEN c
  ELSE IF Stale(c[i], time) THEN Remove(c, i)
  ELSE Append(Remove(c, i), c[i])

\* LRUCache.get: the value, 0 for undefined
LruGet(c, k, time) ==
  LET i == Find(c, k) IN
  IF i = 0 \/ Stale(c[i], time) THEN 0 ELSE i

\* fresh only below the ttl
Fresh_Before(e, time) == (time - e.timestamp) < ttl

\* line 103, negated
Fresh(e, time) == ~((time - e.timestamp) > ttl)

\* lines 95-109: what getCachedResult returns, "null" for null
CachedData(c, k, time) ==
  LET i == LruGet(c, k, time) IN
  IF i = 0 THEN "null"
  ELSE IF ~Fresh(c[i], time) THEN "null"
  ELSE c[i].data

\* lines 95-109: the cache after getCachedResult
CacheAfterLookup(c, k, time) ==
  LET i == LruGet(c, k, time)
      c1 == LruGetCache(c, k, time) IN
  IF i = 0 THEN c1
  ELSE IF ~Fresh(c[i], time) THEN Remove(c1, Find(c1, k))
  ELSE c1

\* lines 95-109
getCachedResult(k) ==
  /\ cache' = CacheAfterLookup(cache, k, now)
  /\ lookup' = [no |-> 1 - lookup.no, key |-> k, data |-> CachedData(cache, k, now)]

\* the keys of Keys that c holds
Held(c) == {k \in Keys : Find(c, k) # 0}

\* lines 111-117, on the cache c that an earlier step of the same segment
\* has left
setCachedResultOn(c, k, data) ==
  LET c1 == LruSet(c, Entry(k, data, now), max) IN
  /\ cache' = c1
  /\ put' = [put EXCEPT ![k] = [at |-> now, data |-> data]]
  /\ evicted' = [j \in Keys |->
       IF j = k THEN FALSE ELSE evicted[j] \/ (j \in Held(cache) \ Held(c1))]

\* lines 111-117
setCachedResult(k, data) == setCachedResultOn(cache, k, data)

\* n setCachedResult calls one after the other, each under a key of its own:
\* n entries are appended, and each one appended to a full cache evicts the
\* least recently used entry
SetOthers(c, n) ==
  LET all == c \o [i \in 1..n |-> Entry(OtherKey, "signal", now)] IN
  IF Len(all) > max THEN SubSeq(all, Len(all) - max + 1, Len(all)) ELSE all

\* a run of n tool calls under further keys, each caching its result
OtherKeysCached(n) ==
  LET c == SetOthers(cache, n) IN
  /\ others < MaxOthers
  /\ others' = others + 1
  /\ cache' = c
  /\ evicted' = [j \in Keys |-> evicted[j] \/ (j \in Held(cache) \ Held(c))]
  /\ UNCHANGED <<lookup, put>>

\* callers of the cache on its own
NextCache ==
  \/ \E k \in Keys : getCachedResult(k)
       /\ UNCHANGED <<configVars, decisionVars, runtimeVars, workflowVars, executionVars, clockVars, breakerVars, callVars, toolVars, put, evicted, others>>
  \/ \E k \in Keys, data \in Data : setCachedResult(k, data)
       /\ UNCHANGED <<configVars, decisionVars, runtimeVars, workflowVars, executionVars, clockVars, breakerVars, callVars, toolVars, lookup, others>>
  \/ \E n \in {max - 1, max} : OtherKeysCached(n)
       /\ UNCHANGED <<configVars, decisionVars, runtimeVars, workflowVars, executionVars, clockVars, breakerVars, callVars, toolVars>>
  \/ \E d \in Durations : Advance(d)
       /\ UNCHANGED <<configVars, decisionVars, runtimeVars, workflowVars, executionVars, breakerVars, callVars, cacheVars, toolVars>>

SpecCache == Init /\ [][NextCache]_vars

(***************************************************************************)
(* The intelligence tools: redditIntelligenceTool (cache and breaker),     *)
(* newsIntelligenceTool (neither) and twitterIntelligenceTool (cache).     *)
(* The workflow awaits one tool call after the other (workflow lines       *)
(* 646-649), so one call is in flight at a time.                           *)
(***************************************************************************)
Sources == {"news", "twitter", "reddit"}

\* the key the Twitter tool is called with
TwitterKey == 1

ToolResult(sources, data, cached, why) ==
  [sources |-> sources, data |-> data, cached |-> cached, why |-> why]

\* a further tool call may be made
WithinFailures ==
  srcStreak["news"] + srcStreak["twitter"] + srcStreak["reddit"] <= MaxSourceFailures

\* no tool call is in flight
Quiet == (\A c \in Callers : bpc[c] = "idle") /\ (\A s \in DOMAIN opc : opc[s] = "idle")

\* the call in which source s failed, or did not fail
SourceFailed(s) ==
  /\ srcStreak' = [srcStreak EXCEPT ![s] = @ + 1]
  /\ srcLastFailAt' = [srcLastFailAt EXCEPT ![s] = now]

SourceWorked(s) ==
  /\ srcStreak' = [srcStreak EXCEPT ![s] = 0]
  /\ UNCHANGED srcLastFailAt

\* reddit tool lines 637-678: the cache is tried first; on a miss
\* circuitBreaker.execute is called, and the empty fallback of an open
\* breaker is processed to neutral data, cached and returned
RedditExecute(c, k) ==
  LET d == CachedData(cache, k, now)
      c1 == CacheAfterLookup(cache, k, now) IN
  /\ Quiet
  /\ WithinFailures
  /\ lookup' = [no |-> 1 - lookup.no, key |-> k, data |-> d]
  /\ rkey' = [rkey EXCEPT ![c] = k]
  /\ IF d # "null"
       THEN /\ cache' = c1
            /\ rresult' = [rresult EXCEPT ![c] = ToolResult("reddit-cache", d, TRUE, "hit")]
            /\ UNCHANGED <<put, evicted, breakerVars, callVars>>
       ELSE /\ BreakerCall(c)
            /\ IF isOpen(failures, lastFailureTime, now)
                 THEN /\ setCachedResultOn(c1, k, "neutral")
                      /\ rresult' = [rresult EXCEPT ![c] =
                           ToolResult("reddit-api", "neutral", FALSE, "open")]
                 ELSE /\ cache' = c1
                      /\ rresult' = [rresult EXCEPT ![c] =
                           ToolResult("none", "null", FALSE, "none")]
                      /\ UNCHANGED <<put, evicted>>
  /\ UNCHANGED <<others, opc, oresult, twitterCache, srcStreak, srcLastFailAt>>

\* reddit tool lines 667-687 and searchRedditDiscussions: the search
\* fulfilled.  posts tells what it collected: "posts"; "none"; or "failed",
\* nothing because every request failed inside getSubredditPosts (lines
\* 302-305).  Without posts processRedditData returns neutral data at once,
\* which is cached and returned
RedditSearched(c, posts) ==
  /\ Fulfilled(c)
  /\ IF posts = "failed" THEN SourceFailed("reddit") ELSE SourceWorked("reddit")
  /\ IF posts = "posts"
       THEN /\ bpc' = [bpc EXCEPT ![c] = "processing"]
            /\ UNCHANGED <<cache, put, evicted, rresult>>
       ELSE /\ bpc' = [bpc EXCEPT ![c] = "idle"]
            /\ setCachedResult(rkey[c], "neutral")
            /\ rresult' = [rresult EXCEPT ![c] =
                 ToolResult("reddit-api", "neutral", FALSE,
                            IF posts = "failed" THEN "degraded" ELSE "empty")]
  /\ UNCHANGED <<lookup, others, rkey, opc, oresult, twitterCache>>

\* reddit tool lines 689-706: the search rejected (getRedditAccessToken
\* throws), the breaker throws on and the catch returns the fallback
RedditSearchFailed(c) ==
  /\ Rejected(c)
  /\ SourceFailed("reddit")
  /\ bpc' = [bpc EXCEPT ![c] = "idle"]
  /\ rresult' = [rresult EXCEPT ![c] = ToolResult("fallback", "neutral", FALSE, "error")]
  /\ UNCHANGED <<cacheVars, rkey, opc, oresult, twitterCache>>

\* reddit tool lines 678-687: processRedditData returned, the result is
\* cached and returned
RedditProcessed(c) ==
  /\ bpc[c] = "processing"
  /\ bpc' = [bpc EXCEPT ![c] = "idle"]
  /\ setCachedResult(rkey[c], "signal")
  /\ rresult' = [rresult EXCEPT ![c] = ToolResult("reddit-api", "signal", FALSE, "ok")]
  /\ UNCHANGED <<breakerVars, callNo, outcome, streak, lastFailAt, lookup, others,
                 rkey, opc, oresult, twitterCache, srcStreak, srcLastFailAt>>

\* reddit tool lines 689-706: processRedditData threw (sentiment analysis)
RedditProcessingFailed(c) ==
  /\ bpc[c] = "processing"
  /\ bpc' = [bpc EXCEPT ![c] = "idle"]
  /\ rresult' = [rresult EXCEPT ![c] = ToolResult("fallback", "neutral", FALSE, "error")]
  /\ UNCHANGED <<breakerVars, callNo, outcome, streak, lastFailAt, cacheVars,
                 rkey, opc, oresult, twitterCache, srcStreak, srcLastFailAt>>

\* news tool lines 357-364: fetchNewsData is called
NewsExecute ==
  /\ Quiet
  /\ WithinFailures
  /\ opc' = [opc EXCEPT !["news"] = "operation"]
  /\ oresult' = [oresult EXCEPT !["news"] = ToolResult("none", "null", FALSE, "none")]
  /\ UNCHANGED <<breakerVars, callVars, cacheVars, rkey, rresult, twitterCache,
                 srcStreak, srcLastFailAt>>

\* news tool lines 366-444 and fetchNewsData: found tells what the searches
\* gave: "articles"; "none"; or "failed", nothing because every Brave request
\* failed inside searchBraveAPI (news tool lines 58-77)
NewsFetched(found) ==
  /\ opc["news"] = "operation"
  /\ opc' = [opc EXCEPT !["news"] = "idle"]
  /\ IF found = "failed" THEN SourceFailed("news") ELSE SourceWorked("news")
  /\ oresult' = [oresult EXCEPT !["news"] =
       IF found = "articles" THEN ToolResult("news", "signal", FALSE, "ok")
       ELSE ToolResult("news", "neutral", FALSE,
                       IF found = "failed" THEN "degraded" ELSE "empty")]
  /\ UNCHANGED <<breakerVars, callVars, cacheVars, rkey, rresult, twitterCache>>

\* twitterCache.get: position of a served entry, 0 for undefined
TwitterHit(c, k, time) ==
  LET i == Find(c, k) IN
  IF i = 0 \/ time - c[i].timestamp > twitterTtl THEN 0 ELSE i

\* twitterCache.get: the cache afterwards
TwitterCacheAfterGet(c, k, time) ==
  LET i == Find(c, k) IN
  IF i = 0 THEN c
  ELSE IF TwitterHit(c, k, time) = 0 THEN Remove(c, i)
  ELSE Append(Remove(c, i), c[i])

\* twitter tool lines 700-716: the cache is tried first; on a miss
\* searchAndAnalyzeTwitter is called
TwitterExecute ==
  LET i == TwitterHit(twitterCache, TwitterKey, now) IN
  /\ Quiet
  /\ WithinFailures
  /\ twitterCache' = TwitterCacheAfterGet(twitterCache, TwitterKey, now)
  /\ IF i # 0
       THEN /\ oresult' = [oresult EXCEPT !["twitter"] =
                 ToolResult("twitter-cache", twitterCache[i].data, TRUE, "hit")]
            /\ UNCHANGED opc
       ELSE /\ oresult' = [oresult EXCEPT !["twitter"] =
                 ToolResult("none", "null", FALSE, "none")]
            /\ opc' = [opc EXCEPT !["twitter"] = "operation"]
  /\ UNCHANGED <<breakerVars, callVars, cacheVars, rkey, rresult, srcStreak,
                 srcLastFailAt>>

\* twitter tool lines 716-729 and searchAndAnalyzeTwitter: found tells what
\* the searches gave: "tweets"; "none"; or "failed", nothing because every
\* search threw inside the loop (part_006 lines 498-502).  Whatever is
\* returned is cached
TwitterAnalysed(found) ==
  /\ opc["twitter"] = "operation"
  /\ opc' = [opc EXCEPT !["twitter"] = "idle"]
  /\ IF found = "failed" THEN SourceFailed("twitter") ELSE SourceWorked("twitter")
  /\ LET data == IF found = "tweets" THEN "signal" ELSE "neutral" IN
       /\ twitterCache' = LruSet(twitterCache, Entry(TwitterKey, data, now), twitterMax)
       /\ oresult' = [oresult EXCEPT !["twitter"] =
            ToolResult("twitter-api", data, FALSE,
                       IF found = "tweets" THEN "ok"
                       ELSE IF found = "failed" THEN "degraded" ELSE "empty")]
  /\ UNCHANGED <<breakerVars, callVars, cacheVars, rkey, rresult>>

\* twitter tool lines 731-741: searchAndAnalyzeTwitter threw
TwitterFailed ==
  /\ opc["twitter"] = "operation"
  /\ opc' = [opc EXCEPT !["twitter"] = "idle"]
  /\ SourceFailed("twitter")
  /\ oresult' = [oresult EXCEPT !["twitter"] =
       ToolResult("fallback", "neutral", FALSE, "error")]
  /\ UNCHANGED <<breakerVars, callVars, cacheVars, rkey, rresult, twitterCache>>

RedditStep(c) ==
  \/ \E k \in Keys : RedditExecute(c, k)
  \/ \E posts \in {"posts", "none", "failed"} : RedditSearched(c, posts)
  \/ RedditSearchFailed(c)
  \/ RedditProcessed(c)
  \/ RedditProcessingFailed(c)

NewsStep ==
  \/ NewsExecute
  \/ \E found \in {"articles", "none", "failed"} : NewsFetched(found)

TwitterStep ==
  \/ TwitterExecute
  \/ \E found \in {"tweets", "none", "failed"} : TwitterAnalysed(found)
  \/ TwitterFailed

NextSources ==
  \/ RedditStep(1) /\ UNCHANGED <<configVars, decisionVars, runtimeVars, workflowVars, executionVars, clockVars>>
  \/ NewsStep /\ UNCHANGED <<configVars, decisionVars, runtimeVars, workflowVars, executionVars, clockVars>>
  \/ TwitterStep /\ UNCHANGED <<configVars, decisionVars, runtimeVars, workflowVars, executionVars, clockVars>>
  \/ ticks < MaxWindows /\ Advance(recoveryTimeout)
       /\ UNCHANGED <<configVars, decisionVars, runtimeVars, workflowVars, executionVars, breakerVars, callVars, cacheVars, toolVars>>

SpecSources == Init /\ [][NextSources]_vars

(***************************************************************************)
(* executeAutonomousTradingPipeline (workflow lines 567-852) with the four *)
(* wrappers of lines 397-525.  The pipeline awaits every call, so a run is *)
(* a sequence of steps; runs are made one after the other, at one instant. *)
(***************************************************************************)
Fragments == {"news", "twitter", "reddit", "market"}

\* the inputs of a run: liquidity and volume in dollars, timeToClose in ms,
\* currentPrice in hundredths
HourMs == 1000 * 60 * 60
PipelineInputs ==
  {[liquidity |-> 999, volume24h |-> 2000, timeToClose |-> 48 * HourMs, currentPrice |-> 50],
   [liquidity |-> 6000, volume24h |-> 2000, timeToClose |-> 12 * HourMs - 1, currentPrice |-> 50],
   [liquidity |-> 1000, volume24h |-> 2000, timeToClose |-> 12 * HourMs, currentPrice |-> 50]}

\* workflow lines 533-562
applyMarketFilters(input) ==
  [passed |-> ~(input.liquidity < 1000) /\ ~(input.timeToClose < 12 * HourMs),
   opportunityScore |->
     (IF input.liquidity > 5000 THEN 30 ELSE 0)
     + (IF input.volume24h > 1000 THEN 25 ELSE 0)
     + (IF input.timeToClose > 24 * HourMs THEN 20 ELSE 0)
     + (IF input.currentPrice > 20 /\ input.currentPrice < 80 THEN 25 ELSE 0)]

\* sentiment_score and confidence (in hundredths) of the data a tool returns:
\* the neutral data, or data with a signal
Score(data) ==
  IF data = "signal" THEN [sentiment_score |-> 60, confidence |-> 70]
  ELSE [sentiment_score |-> 0, confidence |-> 0]

\* the fragment every catch returns replaced by one that carries a signal
Fallback_Signal(s) ==
  CASE s = "news" -> [sentiment_score |-> 60, confidence |-> 70]
    [] s = "twitter" -> [success |-> TRUE, data |-> [sentiment_score |-> 60, confidence |-> 70],
                         sources |-> "fallback", cached |-> FALSE]
    [] s = "reddit" -> [sentiment_score |-> 60, confidence |-> 70, sources |-> "fallback",
                        cached |-> FALSE]
    [] s = "market" -> [success |-> TRUE, markets |-> 1, technicalData |-> "signals"]

\* workflow lines 414-424, 442-454, 478-494, 514-524: the fragment the catch
\* of a wrapper returns
Fallback(s) ==
  CASE s = "news" -> [sentiment_score |-> 0, confidence |-> 0]
    [] s = "twitter" -> [success |-> FALSE, data |-> [sentiment_score |-> 0, confidence |-> 0],
                         sources |-> "fallback", cached |-> FALSE]
    [] s = "reddit" -> [sentiment_score |-> 0, confidence |-> 0, sources |-> "fallback",
                        cached |-> FALSE]
    [] s = "market" -> [success |-> FALSE, markets |-> 0, technicalData |-> "undefined"]

\* workflow lines 397-425; threw tells that newsIntelligenceTool.execute
\* rejected, r is what it returned otherwise
callNewsIntelligence(threw, r) ==
  IF threw THEN Fallback("news")
  ELSE [sentiment_score |-> Score(r.data).sentiment_score,
        confidence |-> Score(r.data).confidence]

\* workflow lines 427-455; the Twitter tool reports success: false from its
\* own catch only (part_006 lines 731-741)
callTwitterIntelligence(threw, r) ==
  IF threw THEN Fallback("twitter")
  ELSE [success |-> r.sources # "fallback", data |-> Score(r.data), sources |-> r.sources,
        cached |-> r.cached]

\* workflow lines 457-495
callRedditIntelligence(threw, r) ==
  IF threw THEN Fallback("reddit")
  ELSE [sentiment_score |-> Score(r.data).sentiment_score,
        confidence |-> Score(r.data).confidence, sources |-> r.sources, cached |-> r.cached]

\* part_005 lines 646-724, operation 'analyze': found tells what the
\* Polymarket client gave: "listed", the market, which passes the tool's
\* filters; "filtered", the market, which does not; "missing", no such
\* market (line 672 throws into the tool's catch); "failed", a request threw
marketIntelligenceTool(found) ==
  IF found \in {"missing", "failed"}
    THEN [success |-> FALSE, markets |-> 0, technicalData |-> "undefined"]
    ELSE [success |-> TRUE, markets |-> IF found = "listed" THEN 1 ELSE 0,
          technicalData |-> "signals"]

\* workflow lines 497-525
callMarketIntelligence(threw, r) ==
  IF threw THEN Fallback("market")
  ELSE [success |-> r.success, markets |-> r.markets, technicalData |-> r.technicalData]

\* how the call of a source ended, from what the tool returned
OutcomeOf(r) == IF r.why \in {"open", "degraded", "error"} THEN "failed" ELSE "ok"

\* workflow lines 811-831 and the return statements of lines 618-631
PipelineOutput(steps) ==
  LET completed == steps.tradeExecution.completed
      decided == steps.decisionAnalysis.completed
      action == IF decided THEN steps.decisionAnalysis.decision.action ELSE "NONE" IN
  [success |-> completed \/ (decided /\ action \in {"HOLD", "NONE"}),
   steps |-> steps,
   finalResult |->
     [action |-> action,
      success |-> completed \/ decided,
      transactionHash |-> steps.tradeExecution.transactionHash,
      amount |-> IF completed THEN <<steps.decisionAnalysis.decision.position_size>> ELSE <<>>,
      error |-> IF ~decided THEN "Decision analysis failed" ELSE "undefined"]]

FilteredOutput(steps) ==
  [success |-> FALSE,
   steps |-> steps,
   finalResult |-> [action |-> "NONE", success |-> FALSE, transactionHash |-> "undefined",
                    amount |-> <<>>, error |-> "Market filtering failed"]]

\* workflow lines 567-633: a run starts and applies the market filters
PipelineStart(input) ==
  LET filterResult == applyMarketFilters(input)
      steps == [InitialStepResults EXCEPT !.marketDiscovery = filterResult] IN
  /\ wpc = "idle"
  /\ runs < MaxRuns
  /\ runs' = runs + 1
  /\ stepResults' = steps
  /\ newsResult' = Undefined
  /\ twitterResult' = Undefined
  /\ redditResult' = Undefined
  /\ marketResult' = Undefined
  /\ sourceOutcome' = [s \in Fragments |-> "none"]
  /\ IF filterResult.passed
       THEN /\ wpc' = "news"
            /\ pipelineResult' = Undefined
       ELSE /\ wpc' = "idle"
            /\ pipelineResult' = FilteredOutput(steps)
  /\ UNCHANGED <<configVars, decisionVars, runtimeVars, executionVars, intelligenceVars>>

\* workflow lines 646 and 399: newsIntelligenceTool.execute is called
NewsCalled ==
  /\ wpc = "news"
  /\ NewsExecute
  /\ wpc' = "newsAwait"
  /\ UNCHANGED <<configVars, decisionVars, runtimeVars, executionVars, clockVars, runs, stepResults, newsResult, twitterResult,
                 redditResult, marketResult, pipelineResult, sourceOutcome>>

\* workflow lines 404-412 and 647: the tool returned
NewsReturned ==
  /\ wpc = "newsAwait"
  /\ opc["news"] = "idle"
  /\ newsResult' = callNewsIntelligence(FALSE, oresult["news"])
  /\ sourceOutcome' = [sourceOutcome EXCEPT !["news"] = OutcomeOf(oresult["news"])]
  /\ wpc' = "twitter"
  /\ UNCHANGED <<configVars, decisionVars, runtimeVars, executionVars, intelligenceVars, runs, stepResults, twitterResult,
                 redditResult, marketResult, pipelineResult>>

\* workflow lines 413-424 and 647: the call rejected
NewsRejected ==
  /\ wpc = "news"
  /\ newsResult' = callNewsIntelligence(TRUE, oresult["news"])
  /\ sourceOutcome' = [sourceOutcome EXCEPT !["news"] = "threw"]
  /\ wpc' = "twitter"
  /\ UNCHANGED <<configVars, decisionVars, runtimeVars, executionVars, intelligenceVars, runs, stepResults, twitterResult,
                 redditResult, marketResult, pipelineResult>>

\* workflow lines 647 and 429: twitterIntelligenceTool.execute is called
TwitterCalled ==
  /\ wpc = "twitter"
  /\ TwitterExecute
  /\ wpc' = "twitterAwait"
  /\ UNCHANGED <<configVars, decisionVars, runtimeVars, executionVars, clockVars, runs, stepResults, newsResult, twitterResult,
                 redditResult, marketResult, pipelineResult, sourceOutcome>>

\* workflow lines 434-439 and 648: the tool returned
TwitterReturned ==
  /\ wpc = "twitterAwait"
  /\ opc["twitter"] = "idle"
  /\ twitterResult' = callTwitterIntelligence(FALSE, oresult["twitter"])
  /\ sourceOutcome' = [sourceOutcome EXCEPT !["twitter"] = OutcomeOf(oresult["twitter"])]
  /\ wpc' = "reddit"
  /\ UNCHANGED <<configVars, decisionVars, runtimeVars, executionVars, intelligenceVars, runs, stepResults, newsResult,
                 redditResult, marketResult, pipelineResult>>

\* workflow lines 440-454 and 648: the call rejected
TwitterRejected ==
  /\ wpc = "twitter"
  /\ twitterResult' = callTwitterIntelligence(TRUE, oresult["twitter"])
  /\ sourceOutcome' = [sourceOutcome EXCEPT !["twitter"] = "threw"]
  /\ wpc' = "reddit"
  /\ UNCHANGED <<configVars, decisionVars, runtimeVars, executionVars, intelligenceVars, runs, stepResults, newsResult,
                 redditResult, marketResult, pipelineResult>>

\* workflow lines 648 and 459: redditIntelligenceTool.execute is called
RedditCalled ==
  /\ wpc = "reddit"
  /\ \E k \in Keys : RedditExecute(1, k)
  /\ wpc' = "redditAwait"
  /\ UNCHANGED <<configVars, decisionVars, runtimeVars, executionVars, clockVars, runs, stepResults, newsResult, twitterResult,
                 redditResult, marketResult, pipelineResult, sourceOutcome>>

\* workflow lines 464-477 and 649: the tool returned
RedditReturned ==
  /\ wpc = "redditAwait"
  /\ bpc[1] = "idle"
  /\ redditResult' = callRedditIntelligence(FALSE, rresult[1])
  /\ sourceOutcome' = [sourceOutcome EXCEPT !["reddit"] = OutcomeOf(rresult[1])]
  /\ wpc' = "market"
  /\ UNCHANGED <<configVars, decisionVars, runtimeVars, executionVars, intelligenceVars, runs, stepResults, newsResult,
                 twitterResult, marketResult, pipelineResult>>

\* workflow lines 478-494 and 649: the call rejected
RedditRejected ==
  /\ wpc = "reddit"
  /\ redditResult' = callRedditIntelligence(TRUE, rresult[1])
  /\ sourceOutcome' = [sourceOutcome EXCEPT !["reddit"] = "threw"]
  /\ wpc' = "market"
  /\ UNCHANGED <<configVars, decisionVars, runtimeVars, executionVars, intelligenceVars, runs, stepResults, newsResult,
                 twitterResult, marketResult, pipelineResult>>

\* workflow lines 649 and 499: marketIntelligenceTool.execute is called
MarketCalled ==
  /\ wpc = "market"
  /\ wpc' = "marketAwait"
  /\ UNCHANGED <<configVars, decisionVars, runtimeVars, executionVars, intelligenceVars, runs, stepResults, newsResult,
                 twitterResult, redditResult, marketResult, pipelineResult, sourceOutcome>>

\* workflow lines 651-665 and 698-715: with the fourth fragment the bundle
\* is put together and stored in stepResults, and makeAutonomousDecision is
\* called
Gathered(fragment, how) ==
  /\ marketResult' = fragment
  /\ sourceOutcome' = [sourceOutcome EXCEPT !["market"] = how]
  /\ stepResults' = [stepResults EXCEPT !.researchGathering =
       [completed |-> TRUE,
        intelligence |-> [news |-> newsResult, twitter |-> twitterResult,
                          reddit |-> redditResult, market |-> fragment]]]
  /\ wpc' = "decision"
  /\ UNCHANGED <<configVars, decisionVars, runtimeVars, executionVars, intelligenceVars, runs, newsResult, twitterResult,
                 redditResult, pipelineResult>>

\* workflow lines 504-512: the market tool returned
MarketReturned(found) ==
  /\ wpc = "marketAwait"
  /\ Gathered(callMarketIntelligence(FALSE, marketIntelligenceTool(found)),
              IF found \in {"missing", "failed"} THEN "failed" ELSE "ok")

\* workflow lines 513-524: the call rejected
MarketRejected ==
  /\ wpc = "market"
  /\ Gathered(callMarketIntelligence(TRUE, Undefined), "threw")

\* workflow lines 356-394: sentiment in hundredths, confidence in percent
\* (|avgSentiment| * 50 + 25, with avgSentiment a third of the sum)
makeFallbackDecision(intelligence) ==
  LET sum == intelligence.news.sentiment_score + intelligence.twitter.data.sentiment_score
             + intelligence.reddit.sentiment_score
      abs == IF sum < 0 THEN -sum ELSE sum
      confidence == abs \div 6 + 25 IN
  IF confidence < 40
    THEN [action |-> "HOLD", confidence |-> confidence, amount |-> 0]
    ELSE [action |-> "BUY", confidence |-> confidence,
          amount |-> IF confidence < 50 THEN confidence ELSE 50]

\* decisions the language model may return (workflow lines 304-326): any
\* action, confidence and amount within 0..100
ModelDecisions ==
  {[action |-> a, confidence |-> 85, amount |-> 75] : a \in {"BUY", "SELL", "HOLD", "NONE"}}

\* workflow lines 717-796: the decision is stored; a BUY or SELL is logged
\* and reported as completed with a dry-run transaction hash; then the
\* market intelligence record is written
Decided(aiDecision) ==
  LET decision == [action |-> aiDecision.action, confidence |-> aiDecision.confidence,
                   position_size |-> aiDecision.amount]
      trade == decision.action = "BUY" \/ decision.action = "SELL" IN
  /\ wpc = "decision"
  /\ stepResults' = [stepResults EXCEPT
       !.decisionAnalysis = [completed |-> TRUE, decision |-> decision],
       !.tradeExecution = [attempted |-> trade, completed |-> trade,
                           transactionHash |-> IF trade THEN "dry_run" ELSE "undefined"]]
  /\ wpc' = "tracking"
  /\ UNCHANGED <<configVars, decisionVars, runtimeVars, executionVars, intelligenceVars, runs, newsResult, twitterResult,
                 redditResult, marketResult, pipelineResult, sourceOutcome>>

\* workflow lines 207-331: the language model answered, or the fallback
\* decided (no API key, a failed request, an answer that does not parse)
DecisionStep ==
  \/ \E d \in ModelDecisions : Decided(d)
  \/ Decided(makeFallbackDecision(stepResults.researchGathering.intelligence))

\* workflow lines 772-851: the record was written or the write threw, and
\* the run returns its output
Tracked(written) ==
  LET steps == [stepResults EXCEPT !.performanceTracking =
                  [recorded |-> written, databaseUpdated |-> written]] IN
  /\ wpc = "tracking"
  /\ stepResults' = steps
  /\ pipelineResult' = PipelineOutput(steps)
  /\ wpc' = "idle"
  /\ UNCHANGED <<configVars, decisionVars, runtimeVars, executionVars, intelligenceVars, runs, newsResult, twitterResult,
                 redditResult, marketResult, sourceOutcome>>

\* the tool whose call the pipeline awaits takes a step
ToolStep ==
  /\ \/ wpc = "newsAwait" /\ \E found \in {"articles", "none", "failed"} : NewsFetched(found)
     \/ wpc = "twitterAwait"
          /\ \/ \E found \in {"tweets", "none", "failed"} : TwitterAnalysed(found)
             \/ TwitterFailed
     \/ wpc = "redditAwait"
          /\ \/ \E posts \in {"posts", "none", "failed"} : RedditSearched(1, posts)
             \/ RedditSearchFailed(1)
             \/ RedditProcessed(1)
             \/ RedditProcessingFailed(1)
  /\ UNCHANGED <<configVars, decisionVars, runtimeVars, workflowVars, executionVars, clockVars>>

NextPipeline ==
  \/ \E input \in PipelineInputs : PipelineStart(input)
  \/ NewsCalled
  \/ NewsReturned
  \/ NewsRejected
  \/ TwitterCalled
  \/ TwitterReturned
  \/ TwitterRejected
  \/ RedditCalled
  \/ RedditReturned
  \/ RedditRejected
  \/ MarketCalled
  \/ \E found \in {"listed", "filtered", "missing", "failed"} : MarketReturned(found)
  \/ MarketRejected
  \/ DecisionStep
  \/ \E written \in BOOLEAN : Tracked(written)
  \/ ToolStep

SpecPipeline == Init /\ [][NextPipeline]_vars

\* a step of the run at an await whose settling the code bounds or makes
\* itself.  The generateText request of makeAutonomousDecision (workflow
\* lines 314-319) is sent without a timeout and without an abort signal:
\* whether it settles is left to the service.
BoundedStep == wpc # "decision" /\ NextPipeline

\* the pipeline with every await settling except the request of the decision
SpecPipelineSettling == SpecPipeline /\ WF_vars(BoundedStep)

(***************************************************************************)
(* The multi-factor decision engine of part_000: marketDecisionTool and    *)
(* the functions it calls.  Numbers are exact fractions kept as integers:  *)
(* sentiments, confidences, prices, credibility and technical signals in   *)
(* hundredths, spread in ten-thousandths, liquidity and volume in dollars, *)
(* timeToClose in ms, every scoring factor in units of 1/Unit, totalScore  *)
(* in units of 1/(100 * Unit), position sizes in units of 1/SizeUnit       *)
(* dollars.                                                                *)
(***************************************************************************)
Unit == 300000
SizeUnit == 200

Min(a, b) == IF a < b THEN a ELSE b
Max(a, b) == IF a > b THEN a ELSE b
Abs(a) == IF a < 0 THEN -a ELSE a

\* Math.round of the fraction x / d (d > 0), halves going up, with the
\* halves going down instead
Round_HalfDown(x, d) == -((d - 2 * x) \div (2 * d))

\* Math.round of the fraction x / d (d > 0): floor(x / d + 1/2)
Round(x, d) == (2 * x + d) \div (2 * d)

\* part_000 lines 131-153 (STRATEGY_CONFIG), min_sentiment_gap in hundredths
min_sentiment_gap == 20
min_confidence == 70
min_liquidity == 2000
min_time_buffer == 12 * 60 * 60 * 1000
max_position == 100
max_single_trade == 100
\* kelly_fraction 0.25 as the divisor 4
kelly_divisor == 4

\* part_000 lines 157-163, in hundredths
SCORING_WEIGHTS ==
  [sentiment_edge |-> 40, technical_momentum |-> 25, liquidity_quality |-> 20,
   timing_urgency |-> 10, news_catalyst |-> 5]

FactorNames ==
  {"sentiment_edge", "technical_momentum", "liquidity_quality", "timing_urgency",
   "news_catalyst"}

\* the markets and the intelligence the tool is called with, all within the
\* input schema (part_000 lines 383-423)
MarketInputs ==
  [currentPrice : {0, 50}, liquidity : {500, 1000, 2000, 10000}, volume24h : {400, 2000},
   timeToClose : {5 * HourMs, 12 * HourMs, 73 * HourMs}, spread : {0, 600},
   orderBookEnabled : BOOLEAN]

IntelligenceInputs ==
  [newsIntelligence :
     [sentiment_score : {-100, 0, 100}, confidence : {0, 100}, breaking_news : BOOLEAN,
      news_count : {0, 3}, source_credibility : {0, 100}],
   socialIntelligence : [twitter_sentiment : {-100, 0, 100}, reddit_sentiment : {-100, 100}],
   marketIntelligence :
     [technical_signals :
        [price_momentum : {-100, 100}, volume_trend : {100}, market_efficiency : {100}]]]

\* part_000 lines 175-178 and 527-531: the weighted sentiment, in thousandths
AggregatedSentiment(intelligence) ==
  intelligence.newsIntelligence.sentiment_score * 3
  + intelligence.socialIntelligence.twitter_sentiment * 4
  + intelligence.socialIntelligence.reddit_sentiment * 3

\* part_000 lines 166-194: gap in thousandths, avgConfidence in 1/300
calculateSentimentEdge(intelligence, market) ==
  LET marketSentiment == (market.currentPrice - 50) * 2 * 10
      sentimentGap == Abs(AggregatedSentiment(intelligence) - marketSentiment)
      avgConfidence == intelligence.newsIntelligence.confidence + 80 + 70 IN
  sentimentGap * avgConfidence

\* part_000 lines 196-207
calculateTechnicalMomentum(intelligence) ==
  LET technicals == intelligence.marketIntelligence.technical_signals
      momentum == technicals.price_momentum * 4 + technicals.volume_trend * 3
                  + technicals.market_efficiency * 3 IN
  (Unit \div 1000) * Max(0, Min(1000, momentum))

\* part_000 lines 209-216: the three scores weighted, in hundred-thousandths
calculateLiquidityQuality(market) ==
  LET liquidityScore == Min(10000, market.liquidity)
      spreadScore == Max(0, 500 - market.spread)
      volumeScore == Min(2000, market.volume24h) IN
  (Unit \div 100000) * (liquidityScore * 4 + spreadScore * 80 + volumeScore * 10)

\* part_000 lines 218-230
calculateTimingUrgency(market) ==
  IF market.timeToClose < 6 * HourMs THEN 3 * (Unit \div 10)
  ELSE IF market.timeToClose > 48 * HourMs THEN 6 * (Unit \div 10)
  ELSE IF market.timeToClose >= 12 * HourMs /\ market.timeToClose <= 24 * HourMs THEN Unit
  ELSE 7 * (Unit \div 10)

\* part_000 lines 232-245: the score in thousandths
calculateNewsCatalyst(intelligence) ==
  LET news == intelligence.newsIntelligence
      catalystScore == IF news.breaking_news THEN 400 ELSE 0
      volumeScore == Min(300, news.news_count * 100)
      credibilityScore == news.source_credibility * 3 IN
  (Unit \div 1000) * Min(1000, catalystScore + volumeScore + credibilityScore)

\* part_000 lines 258-264
TotalScore(factors) ==
  factors.sentiment_edge * SCORING_WEIGHTS.sentiment_edge
  + factors.technical_momentum * SCORING_WEIGHTS.technical_momentum
  + factors.liquidity_quality * SCORING_WEIGHTS.liquidity_quality
  + factors.timing_urgency * SCORING_WEIGHTS.timing_urgency
  + factors.news_catalyst * SCORING_WEIGHTS.news_catalyst

\* part_000 lines 247-268
calculateMultiFactorScore(intelligence, market) ==
  LET factors == [sentiment_edge |-> calculateSentimentEdge(intelligence, market),
                  technical_momentum |-> calculateTechnicalMomentum(intelligence),
                  liquidity_quality |-> calculateLiquidityQuality(market),
                  timing_urgency |-> calculateTimingUrgency(market),
                  news_catalyst |-> calculateNewsCatalyst(intelligence)] IN
  [totalScore |-> TotalScore(factors), breakdown |-> factors]

\* part_000 line 519: Math.round(scoring.totalScore * 100)
Confidence(totalScore) == Round(totalScore, Unit)

\* the conditions of a strategy
BreakingNewsHunter(intelligence, breakdown) ==
  /\ intelligence.newsIntelligence.breaking_news
  /\ breakdown.news_catalyst * 10 > 6 * Unit
  /\ breakdown.sentiment_edge * 10 > 3 * Unit

SentimentArbitrage(market, breakdown) ==
  /\ breakdown.sentiment_edge * 100 > min_sentiment_gap * Unit
  /\ market.liquidity >= min_liquidity
  /\ market.timeToClose >= min_time_buffer

\* the two strategies tried in the other order
determineStrategy_ArbitrageFirst(intelligence, market, scoring) ==
  IF SentimentArbitrage(market, scoring.breakdown) THEN "sentiment_arbitrage"
  ELSE IF BreakingNewsHunter(intelligence, scoring.breakdown) THEN "breaking_news_hunter"
  ELSE "none"

\* part_000 lines 270-292
determineStrategy(intelligence, market, scoring) ==
  IF BreakingNewsHunter(intelligence, scoring.breakdown) THEN "breaking_news_hunter"
  ELSE IF SentimentArbitrage(market, scoring.breakdown) THEN "sentiment_arbitrage"
  ELSE "none"

\* part_000 lines 294-337: confidence_adjusted_size and recommended_size in
\* units of 1/SizeUnit dollars (base * (25 + max(0, confidence - 50)) / 50,
\* a quarter of it), stop_loss_price in ten-thousandths
calculatePositionSizing(confidence, strategy, market) ==
  LET maxPosition == IF strategy = "breaking_news_hunter" THEN 75
                     ELSE IF strategy = "sentiment_arbitrage" THEN max_position
                     ELSE max_single_trade
      baseSize == IF strategy = "breaking_news_hunter" THEN 40 ELSE 50
      confidenceAdjustedSize == baseSize * kelly_divisor * (25 + Max(0, confidence - 50))
      kellySize == confidenceAdjustedSize \div kelly_divisor
      riskFactors ==
        (IF market.liquidity < 5000 THEN <<"Low liquidity">> ELSE <<>>)
        \o (IF market.spread > 300 THEN <<"High spread">> ELSE <<>>)
        \o (IF market.timeToClose < 24 * HourMs THEN <<"Short time to close">> ELSE <<>>)
        \o (IF confidence < 70 THEN <<"Moderate confidence">> ELSE <<>>) IN
  [max_position_size |-> maxPosition,
   recommended_size |-> Min(kellySize, maxPosition * SizeUnit),
   confidence_adjusted_size |-> confidenceAdjustedSize,
   risk_factors |-> riskFactors,
   stop_loss_price |-> IF strategy = "breaking_news_hunter"
                         THEN <<market.currentPrice * 85>> ELSE <<>>]

\* the filters, the first failure only reported
FailedFilters_First(market) ==
  IF market.liquidity < 1000 THEN <<"Insufficient liquidity">>
  ELSE IF market.timeToClose > 72 * HourMs THEN <<"Too much time until close">>
  ELSE IF ~market.orderBookEnabled THEN <<"Order book not enabled">>
  ELSE IF market.volume24h < 500 THEN <<"Insufficient daily volume">>
  ELSE IF market.spread > 500 THEN <<"Spread too wide">>
  ELSE <<>>

\* part_000 lines 460-483: filtersPassedReasons
FailedFilters(market) ==
  (IF market.liquidity < 1000 THEN <<"Insufficient liquidity">> ELSE <<>>)
  \o (IF market.timeToClose > 72 * HourMs THEN <<"Too much time until close">> ELSE <<>>)
  \o (IF ~market.orderBookEnabled THEN <<"Order book not enabled">> ELSE <<>>)
  \o (IF market.volume24h < 500 THEN <<"Insufficient daily volume">> ELSE <<>>)
  \o (IF market.spread > 500 THEN <<"Spread too wide">> ELSE <<>>)

\* part_000 lines 339-377: the reasons of a scored decision, as tags
generateTradeReasoning(strategy, breakdown, intelligence, riskFactors) ==
  (IF strategy = "sentiment_arbitrage" THEN <<"Sentiment Arbitrage">>
   ELSE IF strategy = "breaking_news_hunter" THEN <<"Breaking News">> ELSE <<>>)
  \o (IF breakdown.technical_momentum * 10 > 7 * Unit
        THEN <<"Strong technical momentum">> ELSE <<>>)
  \o (IF breakdown.liquidity_quality * 10 > 8 * Unit
        THEN <<"Excellent liquidity conditions">> ELSE <<>>)
  \o (IF intelligence.newsIntelligence.breaking_news
        THEN <<"Breaking news catalyst detected">> ELSE <<>>)
  \o (IF riskFactors # <<>> THEN <<"Risk factors">> \o riskFactors ELSE <<>>)

\* part_000 lines 485-513: the return value when a filter failed
FilteredDecision(reasons) ==
  [decision |-> [action |-> "NONE", outcome |-> "undefined", confidence |-> 0,
                 position_size |-> 0, reasoning |-> <<"Market filters failed">> \o reasons,
                 strategy |-> "none", execution_urgency |-> "PATIENT"],
   risk_assessment |-> [max_position_size |-> 0, recommended_size |-> 0,
                        confidence_adjusted_size |-> 0, risk_factors |-> reasons,
                        stop_loss_price |-> <<>>],
   scoring_breakdown |-> [f \in FactorNames \cup {"total_score"} |-> 0],
   market_filters_passed |-> FALSE,
   recommended_for_execution |-> FALSE]

\* part_000 lines 515-585: the return value of a market that passed
ScoredDecision(market, intelligence) ==
  LET scoring == calculateMultiFactorScore(intelligence, market)
      strategy == determineStrategy(intelligence, market, scoring)
      confidence == Confidence(scoring.totalScore)
      trade == strategy # "none" /\ confidence >= 70
      aggregatedSentiment == AggregatedSentiment(intelligence)
      action == IF ~trade THEN "NONE"
                ELSE IF aggregatedSentiment > 100 \/ aggregatedSentiment < -100 THEN "BUY"
                ELSE "HOLD"
      label == IF trade /\ aggregatedSentiment > 100 THEN "Yes"
                 ELSE IF trade /\ aggregatedSentiment < -100 THEN "No"
                 ELSE "undefined"
      riskAssessment == calculatePositionSizing(confidence, strategy, market)
      executionUrgency ==
        IF strategy = "breaking_news_hunter" THEN "IMMEDIATE"
        ELSE IF confidence > 85 /\ scoring.breakdown.timing_urgency * 10 < 5 * Unit
          THEN "IMMEDIATE"
        ELSE IF confidence < 75 THEN "PATIENT"
        ELSE "NORMAL" IN
  [decision |-> [action |-> action, outcome |-> label, confidence |-> confidence,
                 position_size |-> IF action # "NONE" THEN riskAssessment.recommended_size
                                   ELSE 0,
                 reasoning |-> generateTradeReasoning(strategy, scoring.breakdown,
                                                       intelligence,
                                                       riskAssessment.risk_factors),
                 strategy |-> strategy, execution_urgency |-> executionUrgency],
   risk_assessment |-> riskAssessment,
   scoring_breakdown |->
     [f \in FactorNames \cup {"total_score"} |->
        IF f = "total_score" THEN scoring.totalScore ELSE scoring.breakdown[f]],
   market_filters_passed |-> TRUE,
   recommended_for_execution |-> action # "NONE" /\ confidence >= 70]

\* part_000 lines 457-586: marketDecisionTool.execute, called once
marketDecisionTool(market, intelligence) ==
  LET reasons == FailedFilters(market) IN
  /\ ~analysis.called
  /\ analysis' = [called |-> TRUE, market |-> market, intelligence |-> intelligence,
                  result |-> IF reasons # <<>> THEN FilteredDecision(reasons)
                             ELSE ScoredDecision(market, intelligence)]
  /\ UNCHANGED <<executionVars, intelligenceVars, workflowVars, configVars, runtimeVars, autonomous>>

NextEngine ==
  /\ ~analysis.called
  /\ \E market \in MarketInputs, intelligence \in IntelligenceInputs :
       marketDecisionTool(market, intelligence)

SpecEngine == Init /\ [][NextEngine]_vars

(***************************************************************************)
(* makeAutonomousDecision (workflow lines 207-348).  A field of the parsed *)
(* response is a JavaScript value: a number, a string, or undefined when   *)
(* the field is missing; NaN arises from arithmetic on a string that is no *)
(* number.                                                                 *)
(***************************************************************************)
Num(v) == [type |-> "number", value |-> v]
Str(t) == [type |-> "string", text |-> t]
Missing == [type |-> "undefined"]
NaN == [type |-> "NaN"]

\* the truthiness test of if (x), !x and x || y
Truthy(x) ==
  \/ x.type = "number" /\ x.value # 0
  \/ x.type = "string" /\ x.text # ""

\* the value left as it is
Clamp_None(x) == x

\* workflow lines 335 and 337: Math.max(0, Math.min(100, x)), x a number or
\* a string that is no number
Clamp(x) == IF x.type = "number" THEN Num(Max(0, Min(100, x.value))) ELSE NaN

\* what the language-model service gives: no API key ("absent", workflow
\* lines 222-225), a rejected request ("threw"), text without an object
\* ("text", lines 321-325), an object that does not parse ("unparsable",
\* line 327), or a parsed object
Responses ==
  [action : {Str("BUY"), Str("SELL"), Str("HOLD"), Str("NONE"), Str("LONG"), Missing},
   confidence : {Num(85), Num(50), Num(150), Num(-5), Str("high"), Missing},
   amount : {Num(75), Num(500), Num(-5), Num(0), Str("all"), Missing}]

Services ==
  {[kind |-> k] : k \in {"absent", "threw", "text", "unparsable"}}
  \cup {[kind |-> "parsed", response |-> r] : r \in Responses}

\* the bundles the function is called with: the three sentiment scores, in
\* hundredths
Bundles ==
  {[news |-> [sentiment_score |-> n], twitter |-> [data |-> [sentiment_score |-> t]],
    reddit |-> [sentiment_score |-> r]] : n, t, r \in {-90, 0, 60, 90}}

\* workflow lines 366-393 as makeAutonomousDecision returns it: HOLD comes
\* without an amount
FallbackDecision(intelligence) ==
  LET d == makeFallbackDecision(intelligence) IN
  [action |-> Str(d.action), confidence |-> Num(d.confidence),
   amount |-> IF d.action = "HOLD" THEN Missing ELSE Num(d.amount)]

\* workflow lines 329-332: the structure check
ValidStructure(r) == Truthy(r.action) /\ r.confidence.type = "number"

\* workflow lines 221-347
makeAutonomousDecision(intelligence, service) ==
  IF service.kind # "parsed" THEN FallbackDecision(intelligence)
  ELSE IF ~ValidStructure(service.response) THEN FallbackDecision(intelligence)
  ELSE [action |-> service.response.action,
        confidence |-> Clamp(service.response.confidence),
        amount |-> IF Truthy(service.response.amount) THEN Clamp(service.response.amount)
                   ELSE service.response.amount]

\* workflow line 721: aiDecision.amount || 0
PositionSize(decision) == IF Truthy(decision.amount) THEN decision.amount ELSE Num(0)

\* makeAutonomousDecision, called once
AutonomousCall(intelligence, service) ==
  /\ ~autonomous.called
  /\ autonomous' = [called |-> TRUE, intelligence |-> intelligence, service |-> service,
                    decision |-> makeAutonomousDecision(intelligence, service)]
  /\ UNCHANGED <<executionVars, intelligenceVars, workflowVars, configVars, runtimeVars, analysis>>

\* one call of either decision maker
NextDecision ==
  /\ ~analysis.called
  /\ ~autonomous.called
  /\ \/ \E market \in MarketInputs, intelligence \in IntelligenceInputs :
          marketDecisionTool(market, intelligence)
     \/ \E intelligence \in Bundles, service \in Services :
          AutonomousCall(intelligence, service)

SpecDecision == Init /\ [][NextDecision]_vars

(***************************************************************************)
(* searchBraveAPI (news-intelligence.tool.ts lines 32-77): one call, with  *)
(* its recursive retries.                                                  *)
(***************************************************************************)
\* what a request comes back with: data (status 200), a rate-limit error
\* (status 429), another error status, or an error without a response
BraveStatuses == {200, 429, 500, 0}

\* Math.random() * 1000 in ms, 0 <= jitter < 1000
Jitters == {0, 500, 999}

RECURSIVE Pow2(_)
Pow2(n) == IF n = 0 THEN 1 ELSE 2 * Pow2(n - 1)

\* line 60: Math.pow(2, retryCount) * 2000
BaseDelay(retries) == Pow2(retries) * 2000

\* retried while retryCount <= maxRetries
ShouldRetry_OneMore(code, retries) == code = 429 /\ retries <= braveMaxRetries

\* line 58: the condition of the retry
ShouldRetry(code, retries) == code = 429 /\ retries < braveMaxRetries

\* lines 33-36, 41-54: the call; without BRAVE_API_KEY it returns null at
\* once, with it the first request is sent
SearchCalled(key) ==
  /\ bravePc = "idle"
  /\ IF key
       THEN bravePc' = "request" /\ UNCHANGED braveResult
       ELSE bravePc' = "done" /\ braveResult' = "null"
  /\ UNCHANGED <<braveRetryCount, braveResponses, braveWaits>>
  /\ UNCHANGED <<executionVars, intelligenceVars, workflowVars, configVars, decisionVars, loopVars>>

\* lines 41-77: the request settles with status code
SearchSettled(code, jitter) ==
  /\ bravePc = "request"
  /\ braveResponses' = Append(braveResponses, code)
  /\ IF code = 200
       THEN /\ braveResult' = "data"
            /\ bravePc' = "done"
            /\ UNCHANGED braveWaits
       ELSE IF ShouldRetry(code, braveRetryCount)
         THEN /\ braveWaits' = Append(braveWaits, <<BaseDelay(braveRetryCount), jitter>>)
              /\ bravePc' = "waiting"
              /\ UNCHANGED braveResult
         ELSE /\ braveResult' = "null"
              /\ bravePc' = "done"
              /\ UNCHANGED braveWaits
  /\ UNCHANGED braveRetryCount
  /\ UNCHANGED <<executionVars, intelligenceVars, workflowVars, configVars, decisionVars, loopVars>>

\* lines 65-66: the wait is over, searchBraveAPI is called with
\* retryCount + 1 and sends its request
SearchRetried ==
  /\ bravePc = "waiting"
  /\ braveRetryCount' = braveRetryCount + 1
  /\ bravePc' = "request"
  /\ UNCHANGED <<braveResponses, braveWaits, braveResult>>
  /\ UNCHANGED <<executionVars, intelligenceVars, workflowVars, configVars, decisionVars, loopVars>>

NextSearch ==
  \/ \E key \in BOOLEAN : SearchCalled(key)
  \/ \E code \in BraveStatuses, jitter \in Jitters : SearchSettled(code, jitter)
  \/ SearchRetried

SpecSearch == Init /\ [][NextSearch]_vars

(***************************************************************************)
(* The scheduler of part_005 (lines 1-262): startAutonomousLoop and        *)
(* runIteration.  Prices are in hundredths, liquidity and volume in        *)
(* dollars, endDate as the time left to it in ms.                          *)
(***************************************************************************)
\* line 230: slice(0, 5)
topN == 5

\* the markets discovery may report, by id
MarketData ==
  <<[active |-> TRUE, liquidity |-> 5000, volume24h |-> 1000, timeToClose |-> 48 * HourMs,
     isMultiOutcome |-> FALSE, currentPrice |-> 50, outcomePrices |-> <<50, 50>>],
    [active |-> TRUE, liquidity |-> 1000, volume24h |-> 100, timeToClose |-> 24 * HourMs,
     isMultiOutcome |-> FALSE, currentPrice |-> 5, outcomePrices |-> <<5, 95>>],
    [active |-> TRUE, liquidity |-> 2000, volume24h |-> 2000, timeToClose |-> 48 * HourMs,
     isMultiOutcome |-> FALSE, currentPrice |-> 95, outcomePrices |-> <<95, 5>>],
    [active |-> TRUE, liquidity |-> 10000, volume24h |-> 300, timeToClose |-> 48 * HourMs,
     isMultiOutcome |-> FALSE, currentPrice |-> 30, outcomePrices |-> <<30, 70>>],
    [active |-> TRUE, liquidity |-> 3000, volume24h |-> 500, timeToClose |-> 48 * HourMs,
     isMultiOutcome |-> FALSE, currentPrice |-> 60, outcomePrices |-> <<60, 40>>],
    [active |-> TRUE, liquidity |-> 1500, volume24h |-> 400, timeToClose |-> 48 * HourMs,
     isMultiOutcome |-> TRUE, currentPrice |-> 40, outcomePrices |-> <<40, 35, 25>>],
    [active |-> TRUE, liquidity |-> 999, volume24h |-> 100000, timeToClose |-> 48 * HourMs,
     isMultiOutcome |-> FALSE, currentPrice |-> 50, outcomePrices |-> <<50, 50>>],
    [active |-> TRUE, liquidity |-> 20000, volume24h |-> 5000, timeToClose |-> 48 * HourMs,
     isMultiOutcome |-> TRUE, currentPrice |-> 99, outcomePrices |-> <<99, 1, 0>>],
    [active |-> TRUE, liquidity |-> 1500, volume24h |-> 400, timeToClose |-> 23 * HourMs,
     isMultiOutcome |-> FALSE, currentPrice |-> 50, outcomePrices |-> <<50, 50>>]>>

\* what discoverRealPolymarkets may return (lines 30-86): nothing, markets
\* that are all filtered out, fewer than five opportunities, more than five
DiscoveredLists == {<<>>, <<7, 8, 9>>, <<2, 7, 4>>, <<2, 6, 5, 8, 4, 9, 3, 7, 1>>}

\* lines 107-137: the test of filterHighOpportunityMarkets
HighOpportunity(m) ==
  /\ m.active
  /\ ~(m.liquidity < 1000)
  /\ ~(m.volume24h < 100)
  /\ ~(m.timeToClose < 24 * HourMs)
  /\ IF m.isMultiOutcome
       THEN /\ ~(\E i \in DOMAIN m.outcomePrices : m.outcomePrices[i] > 98)
            /\ ~(Cardinality({i \in DOMAIN m.outcomePrices : m.outcomePrices[i] > 1}) < 2)
       ELSE ~(m.currentPrice < 5 \/ m.currentPrice > 95)

\* lines 106-138
filterHighOpportunityMarkets(markets) == SelectSeq(markets, LAMBDA id : HighOpportunity(MarketData[id]))

\* line 229: the sort key
OpportunityScore(id) == MarketData[id].volume24h * MarketData[id].liquidity

\* id placed into a sequence sorted by descending key, behind its equals
RECURSIVE Insert(_, _)
Insert(sorted, id) ==
  IF sorted = <<>> THEN <<id>>
  ELSE IF OpportunityScore(sorted[Len(sorted)]) >= OpportunityScore(id)
    THEN Append(sorted, id)
    ELSE Append(Insert(SubSeq(sorted, 1, Len(sorted) - 1), id), sorted[Len(sorted)])

\* line 229: Array.prototype.sort with the descending comparator (stable)
RECURSIVE SortByScore(_)
SortByScore(markets) ==
  IF markets = <<>> THEN <<>>
  ELSE Insert(SortByScore(SubSeq(markets, 1, Len(markets) - 1)), markets[Len(markets)])

\* one market more
TopOpportunities_OneMore(opportunities) ==
  SubSeq(SortByScore(opportunities), 1, Min(topN + 1, Len(opportunities)))

\* lines 228-230
TopOpportunities(opportunities) ==
  SubSeq(SortByScore(opportunities), 1, Min(topN, Len(opportunities)))

\* how a run of the pipeline settles for processMarketOpportunity: result
\* with success true, result with success false, rejection
PipelineOutcomes == {"success", "unsuccessful", "threw"}

\* a catch that lets a rejection of the pipeline through
Caught_ResultsOnly(how) == how # "threw"

\* lines 158-187: the try of processMarketOpportunity covers the pipeline
\* call, whatever it settles with
Caught(how) == TRUE

\* runIteration returns (lines 210, 224, 246, 250); the first call is awaited
\* by startAutonomousLoop, which then sets the interval up (lines 254-259)
IterationReturns(i) ==
  /\ ipc' = [ipc EXCEPT ![i] = "done"]
  /\ loopPc' = IF loopPc = "first" THEN "timer" ELSE loopPc

\* lines 194-254: the loop starts and calls runIteration
LoopStarted ==
  /\ loopPc = "idle"
  /\ loopPc' = "first"
  /\ ipc' = [ipc EXCEPT ![1] = "discover"]
  /\ UNCHANGED <<allMarkets, topOpportunities, position, failedBefore>>
  /\ UNCHANGED <<executionVars, intelligenceVars, workflowVars, configVars, decisionVars, searchVars>>

\* lines 257-259: the interval elapses and its callback calls runIteration,
\* whatever the earlier calls are doing; i is a call record not in use
TimerFired(i) ==
  /\ loopPc = "timer"
  /\ ipc[i] \in {"idle", "done"}
  /\ \A j \in Slots : j < i => ipc[j] \notin {"idle", "done"}
  /\ ipc' = [ipc EXCEPT ![i] = "discover"]
  /\ allMarkets' = [allMarkets EXCEPT ![i] = <<>>]
  /\ topOpportunities' = [topOpportunities EXCEPT ![i] = <<>>]
  /\ position' = [position EXCEPT ![i] = 0]
  /\ failedBefore' = [failedBefore EXCEPT ![i] = FALSE]
  /\ UNCHANGED loopPc
  /\ UNCHANGED <<executionVars, intelligenceVars, workflowVars, configVars, decisionVars, searchVars>>

\* lines 206-239: discovery returned markets; without markets or without
\* opportunities the iteration returns, otherwise the first of the top
\* opportunities goes to the pipeline
Discovered(i, markets) ==
  LET opportunities == filterHighOpportunityMarkets(markets) IN
  /\ ipc[i] = "discover"
  /\ allMarkets' = [allMarkets EXCEPT ![i] = markets]
  /\ IF Len(markets) = 0 \/ Len(opportunities) = 0
       THEN /\ IterationReturns(i)
            /\ UNCHANGED <<topOpportunities, position>>
       ELSE /\ topOpportunities' = [topOpportunities EXCEPT ![i] = TopOpportunities(opportunities)]
            /\ position' = [position EXCEPT ![i] = 1]
            /\ ipc' = [ipc EXCEPT ![i] = "pipeline"]
            /\ UNCHANGED loopPc
  /\ UNCHANGED failedBefore
  /\ UNCHANGED <<executionVars, intelligenceVars, workflowVars, configVars, decisionVars, searchVars>>

\* lines 172-188, 239-242: the pipeline settled; processMarketOpportunity
\* logs and returns and the delay starts.  An exception that leaves
\* processMarketOpportunity reaches the catch of line 248.
PipelineSettled(i, how) ==
  /\ ipc[i] = "pipeline"
  /\ IF Caught(how)
       THEN /\ ipc' = [ipc EXCEPT ![i] = "delay"]
            /\ UNCHANGED loopPc
       ELSE IterationReturns(i)
  /\ failedBefore' = [failedBefore EXCEPT ![i] =
       @ \/ (how # "success" /\ position[i] < Len(topOpportunities[i]))]
  /\ UNCHANGED <<allMarkets, topOpportunities, position>>
  /\ UNCHANGED <<executionVars, intelligenceVars, workflowVars, configVars, decisionVars, searchVars>>

\* lines 238-246: the delay is over; the next market goes to the pipeline,
\* or the iteration returns
DelayElapsed(i) ==
  /\ ipc[i] = "delay"
  /\ IF position[i] < Len(topOpportunities[i])
       THEN /\ position' = [position EXCEPT ![i] = @ + 1]
            /\ ipc' = [ipc EXCEPT ![i] = "pipeline"]
            /\ UNCHANGED loopPc
       ELSE /\ IterationReturns(i)
            /\ UNCHANGED position
  /\ UNCHANGED <<allMarkets, topOpportunities, failedBefore>>
  /\ UNCHANGED <<executionVars, intelligenceVars, workflowVars, configVars, decisionVars, searchVars>>

IterationStep(i) ==
  \/ \E markets \in DiscoveredLists : Discovered(i, markets)
  \/ \E how \in PipelineOutcomes : PipelineSettled(i, how)
  \/ DelayElapsed(i)

NextLoop ==
  \/ LoopStarted
  \/ \E i \in Slots : TimerFired(i)
  \/ \E i \in Slots : IterationStep(i)

SpecLoop == Init /\ [][NextLoop]_vars

\* every await of an iteration settles, with a result or with a failure:
\* discovery, the pipeline, the delay
SpecLoopFair == SpecLoop /\ \A i \in Slots : WF_vars(IterationStep(i))

(***************************************************************************)
(* Claims                                                                  *)
(***************************************************************************)

\* C1: within one calendar day, whatever validateTradeAmount, recordTradeStart
\* and recordTradeEnd calls the invocations make, dailySpentAmount never
\* exceeds maxDailySpend (SpecConcurrent has no day change).
C1_DailySpentWithinCap == dailySpentAmount <= maxDailySpend

\* C2: with invocations interleaved at their suspension points the ledger
\* behaves as if each validate-then-record pair were serialized: in every
\* reachable state dailySpentAmount <= maxDailySpend and
\* concurrentTradesCount <= maxConcurrentTrades.
C2_LedgerSerialized ==
  /\ dailySpentAmount <= maxDailySpend
  /\ concurrentTradesCount <= maxConcurrentTrades

\* C3: an invocation never calls recordTradeEnd twice, and an invocation that
\* passed validation has called it exactly once when it returns, whether it
\* returns through the normal return (submitted, or retries exhausted) or
\* through the catch (missing wallet address, balance check, persistence
\* error).
C3_RecordTradeEndOnce ==
  \A p \in Procs :
    /\ endCalls[p] <= 1
    /\ (pc[p] = "done" /\ returned[p].path \in {"result", "error"}) => endCalls[p] = 1
    /\ pc[p] \in {"ending", "catch"} => endCalls[p] = 1

C3_Witness ==
  /\ pc[1] = "done"
  /\ returned[1].path = "error"
  /\ returned[1].error = DbError
  /\ startCalls[1] = 1
  /\ endCalls[1] = 1

\* C4: every validateTradeAmount call answers with the first check that fails
\* in the order emergency stop, (day rollover), per-trade cap, daily cap,
\* concurrent-trade cap: an active emergency stop rejects before the rollover
\* and leaves the ledger alone; otherwise the rollover is done first, then an
\* amount above maxSingleTrade is rejected as such even when the daily cap
\* would fail too, then the daily cap is checked against the counter after the
\* rollover and its reason cites the counter, the amount and the cap, then the
\* concurrent-trade cap; the call is valid only if all pass.
C4_ValidationOrder ==
  [][\A amt \in AmountInputs :
       DriverValidate(amt) =>
         LET v == securityValidation'[1]
             trade == ParseFloat(amt)
             spent == IF today # lastResetDate THEN 0 ELSE dailySpentAmount
             overSingle == trade > maxSingleTrade
             overDaily == spent + trade > maxDailySpend
             overSlots == concurrentTradesCount >= maxConcurrentTrades
         IN  /\ emergencyStopActive =>
                  /\ v.kind = "emergency" /\ ~v.valid
                  /\ UNCHANGED <<dailySpentAmount, lastResetDate>>
             /\ ~emergencyStopActive =>
                  /\ lastResetDate' = today
                  /\ dailySpentAmount' = spent
                  /\ overSingle =>
                       /\ v.kind = "single" /\ ~v.valid
                       /\ v.amountText = amt /\ v.numbers = <<maxSingleTrade>>
                  /\ (~overSingle /\ overDaily) =>
                       /\ v.kind = "daily" /\ ~v.valid
                       /\ v.numbers = <<spent, trade, maxDailySpend>>
                  /\ (~overSingle /\ ~overDaily /\ overSlots) =>
                       /\ v.kind = "concurrent" /\ ~v.valid
                       /\ v.numbers = <<maxConcurrentTrades>>
                  /\ (~overSingle /\ ~overDaily /\ ~overSlots) => v.valid
    ]_vars

\* dailySpent = 250, a request of 60: rejected with the daily-cap reason citing
\* 250, 60 and 300
C4_Witness ==
  /\ dailySpentAmount = 250
  /\ amount[1] = <<6, 0>>
  /\ ~securityValidation[1].valid
  /\ securityValidation[1].kind = "daily"
  /\ securityValidation[1].numbers = <<250, 60, 300>>

\* C5: the emergency-stop flag, once set, is never cleared by any operation,
\* and while it is set every validateTradeAmount call is rejected, for every
\* amount and every state of the ledger.
C5_EmergencyStopLatches ==
  [][/\ emergencyStopActive => emergencyStopActive'
     /\ \A amt \in AmountInputs :
          (emergencyStopActive /\ DriverValidate(amt)) => ~securityValidation'[1].valid
    ]_vars

C5_Witness ==
  /\ emergencyStopActive
  /\ amount[1] = <<5, 0>>
  /\ securityValidation[1].kind = "emergency"
  /\ dailySpentAmount = 0
  /\ concurrentTradesCount = 0

\* C6: concurrentTradesCount is never negative, whatever recordTradeStart and
\* recordTradeEnd calls are made, also with more ends than starts.
C6_ConcurrentCountNonNegative == concurrentTradesCount >= 0

C6_Witness ==
  /\ endCalls[1] > startCalls[1]
  /\ concurrentTradesCount = 0

\* the steps at which invocation p calls validateTradeAmount, recordTradeStart
\* and recordTradeEnd
ValidateStep(p) == pc[p] \in {"idle", "done"} /\ pc'[p] = "validated"
StartStep(p) == startCalls'[p] = startCalls[p] + 1
EndStep(p) == endCalls'[p] = endCalls[p] + 1

\* C7 as stated: the first ledger operation (validateTradeAmount,
\* recordTradeStart or recordTradeEnd) made while the current date differs
\* from lastResetDate resets dailySpentAmount to 0 and stores the date, and
\* dailySpentAmount is not reset while the date is unchanged.
C7_FirstLedgerOperationResets ==
  [][/\ \A p \in Procs :
          (today # lastResetDate /\ (ValidateStep(p) \/ StartStep(p) \/ EndStep(p)))
            => lastResetDate' = today
     /\ lastResetDate' # lastResetDate => dailySpentAmount' = 0
     /\ (today = lastResetDate /\ dailySpentAmount' < dailySpentAmount) => FALSE
    ]_vars

\* C7 as amended: only validateTradeAmount resets.  Every validateTradeAmount
\* call made while the emergency stop is inactive stores the current date, and
\* resets dailySpentAmount to 0 before its cap checks if that date differs from
\* lastResetDate, so that the call is not rejected for the daily cap;
\* lastResetDate changes in no other way, and dailySpentAmount decreases only
\* in such a reset, so it is reset at most once per date change and never
\* while the date is unchanged.
C7_ResetByValidation ==
  [][/\ lastResetDate' # lastResetDate =>
          /\ today # lastResetDate
          /\ lastResetDate' = today
          /\ dailySpentAmount' = 0
          /\ ~emergencyStopActive
          /\ \E p \in Procs : ValidateStep(p)
     /\ dailySpentAmount' < dailySpentAmount => lastResetDate' # lastResetDate
     /\ \A p \in Procs :
          (ValidateStep(p) /\ ~emergencyStopActive) =>
            /\ lastResetDate' = today
            /\ today # lastResetDate =>
                 /\ dailySpentAmount' = 0
                 /\ securityValidation'[p].kind # "daily"
    ]_vars

\* a trade was recorded, and the validation of the next invocation, made on
\* the next day, has reset the counter
C7_Witness ==
  /\ status[1] # "none"
  /\ pc[1] = "validated"
  /\ securityValidation[1].valid
  /\ today = 1
  /\ lastResetDate = 1
  /\ dailySpentAmount = 0

\* an invocation whose validation was rejected
RejectedAt(p) == pc[p] = "validated" /\ ~securityValidation[p].valid

\* C8 as stated: a rejected invocation changes neither dailySpentAmount nor
\* concurrentTradesCount, calls no backend tool, creates no trade record and
\* returns (it does not throw) a result carrying the rejection reason.
C8_RejectionLeavesLedgerUnchanged ==
  [][\A p \in Procs :
       /\ (ValidateStep(p) /\ RejectedAt(p)') =>
            /\ dailySpentAmount' = dailySpentAmount
            /\ concurrentTradesCount' = concurrentTradesCount
       /\ RejectedAt(p) =>
            /\ backendCalls[p] = 0 /\ savedTrade[p] = 0
            /\ pc'[p] \in {"validated", "done"}
            /\ pc'[p] = "done" =>
                 /\ UNCHANGED <<ledgerVars, status, mon>>
                 /\ returned'[p].path = "rejected"
                 /\ returned'[p].error = <<securityValidation[p].kind>>
                 /\ ~returned'[p].databaseRecorded
    ]_vars

\* C8 as amended: a rejected invocation adds nothing to dailySpentAmount (the
\* only change its validation can make is the day-rollover reset to 0, when
\* the date differs from lastResetDate and the emergency stop is inactive)
\* and leaves concurrentTradesCount unchanged, calls no backend tool, creates
\* no trade record and returns a result carrying the rejection reason.
C8_RejectionChargesNothing ==
  [][\A p \in Procs :
       /\ (ValidateStep(p) /\ RejectedAt(p)') =>
            /\ \/ dailySpentAmount' = dailySpentAmount
               \/ /\ dailySpentAmount' = 0
                  /\ today # lastResetDate
                  /\ ~emergencyStopActive
            /\ concurrentTradesCount' = concurrentTradesCount
       /\ RejectedAt(p) =>
            /\ backendCalls[p] = 0 /\ savedTrade[p] = 0
            /\ pc'[p] \in {"validated", "done"}
            /\ pc'[p] = "done" =>
                 /\ UNCHANGED <<ledgerVars, status, mon>>
                 /\ returned'[p].path = "rejected"
                 /\ returned'[p].error = <<securityValidation[p].kind>>
                 /\ ~returned'[p].databaseRecorded
    ]_vars

\* a trade was recorded, and the rejected validation of the next invocation,
\* made on the next day, has reset the counter
C8_Witness ==
  /\ status[1] # "none"
  /\ pc[1] = "done"
  /\ returned[1].path = "rejected"
  /\ returned[1].error = <<"single">>
  /\ dailySpentAmount = 0
  /\ lastResetDate = 1

\* C9: the retry loop makes at most maxRetries + 1 = 4 attempts; when no
\* attempt succeeded it leaves the loop only after the 4th, and the trade
\* record is then written FAILED.
C9_FourAttemptsThenFailed ==
  \A p \in Procs :
    /\ attempts[p] <= maxRetries + 1
    /\ pc[p] \in {"approve", "submit"} => attempts[p] = retryCount[p] + 1
    /\ pc[p] = "retryDelay" => attempts[p] = retryCount[p]
    /\ (pc[p] \in {"markFailed", "ending"} /\ ~Succeeded(executionResult[p])) =>
         /\ attempts[p] = maxRetries + 1
         /\ executionResult[p] = "failed"
    /\ (pc[p] = "ending" /\ ~Succeeded(executionResult[p])) =>
         status[savedTrade[p]] = "FAILED"

C9_Witness ==
  /\ pc[1] = "ending"
  /\ executionResult[1] = "failed"
  /\ attempts[1] = 4
  /\ retryCount[1] = 4
  /\ status[savedTrade[1]] = "FAILED"

\* C10: a trade record is EXECUTED only if its confirmation watch ended
\* confirmed, having observed at least confirmationBlocks confirmations; a
\* watch that timed out or got a failed status check never writes EXECUTED,
\* and what it writes is FAILED.
C10_ExecutedOnlyIfConfirmed ==
  [][\A t \in TradeIds :
       /\ status'[t] = "EXECUTED" =>
            /\ monResult'[t] = "confirmed"
            /\ observed'[t] >= confirmationBlocks
       /\ (monResult[t] \in {"timeout", "statusFailed"} /\ status'[t] # status[t]) =>
            status'[t] = "FAILED"
    ]_vars

C10_Witness ==
  /\ status[1] = "EXECUTED"
  /\ observed[1] = confirmationBlocks
  /\ status[2] = "FAILED"
  /\ monResult[2] = "timeout"

Terminal == {"EXECUTED", "FAILED"}

\* a row is at rest: no invocation holds it and no watch is running on it
AtRest(t) ==
  /\ status[t] # "none"
  /\ \A p \in Procs : savedTrade[p] # t
  /\ mon[t] \in {"none", "done"}

\* the status of a row changes only from absent to PENDING and from PENDING
\* to EXECUTED or FAILED, and a status write returns only on a PENDING row
C11_WritesFromPendingOnly ==
  [][\A t \in TradeIds :
       /\ status'[t] # status[t] =>
            \/ status[t] = "none" /\ status'[t] = "PENDING"
            \/ status[t] = "PENDING" /\ status'[t] \in Terminal
       /\ (mon[t] \in {"write", "catchWrite"} /\ mon'[t] = "done"
            /\ status'[t] \in Terminal) => status[t] = "PENDING"
       /\ \A p \in Procs :
            (pc[p] = "markFailed" /\ pc'[p] = "ending" /\ savedTrade[p] = t) =>
              status[t] = "PENDING"
    ]_vars

\* C11: every trade record is created PENDING and gets exactly one terminal
\* write, PENDING to EXECUTED or PENDING to FAILED: a terminal row is never
\* written again, CANCELLED is never written, and a row the engine is done
\* with has had its terminal write.
C11_ExactlyOneTerminalWrite ==
  /\ C11_WritesFromPendingOnly
  /\ [](\A t \in TradeIds : AtRest(t) => status[t] \in Terminal)

\* C12: every trade record created PENDING eventually is EXECUTED or FAILED.
C12_PendingReachesTerminal ==
  \A t \in TradeIds : (status[t] = "PENDING") ~> (status[t] \in Terminal)

\* caller c calls circuitBreaker.execute in this step
CallStep(c) == callNo'[c] # callNo[c]

\* the operation is invoked for c in this step
Invoked(c) == bpc[c] = "idle" /\ bpc'[c] = "operation"

\* C13: with failureThreshold (5) failed calls in a row, a call made less
\* than recoveryTimeout after the latest failure returns the fallback and
\* does not invoke the operation; a call made once recoveryTimeout has
\* elapsed invokes it; with fewer than 5 failed calls in a row every call
\* invokes it.
C13_OpenAfterThreshold ==
  [][\A c \in Callers : CallStep(c) =>
       IF streak >= failureThreshold /\ now - lastFailAt < recoveryTimeout
         THEN outcome'[c] = "fallback" /\ ~Invoked(c)
         ELSE Invoked(c) /\ outcome'[c] # "fallback"
    ]_vars

\* the fifth failure in a row has just happened, a sixth call inside the
\* window got the fallback, and a later call at the end of the window is in
\* its operation
C13_Witness ==
  /\ streak = failureThreshold
  /\ outcome[1] = "fallback"
  /\ now = lastFailAt + recoveryTimeout
  /\ bpc[2] = "operation"

\* C14: a call that settles while the breaker has tripped (failures at or
\* above the threshold) decides the state: fulfilled, the counter is 0 and
\* the breaker is closed; rejected, the last-failure time is the current time
\* and the breaker is open, from that time to the last millisecond before
\* recoveryTimeout has elapsed.  The breaker is open only with failureThreshold
\* failed calls in a row.
C14_TrialDecides ==
  /\ [][\A c \in Callers :
          (bpc[c] = "operation" /\ bpc'[c] = "idle"
           /\ failures >= failureThreshold) =>
            IF outcome'[c] = "result"
              THEN /\ failures' = 0
                   /\ ~isOpen(failures', lastFailureTime', now')
              ELSE /\ lastFailureTime' = now
                   /\ failures' >= failureThreshold
                   /\ \A d \in {0, 1, recoveryTimeout - 1} :
                        isOpen(failures', lastFailureTime', now + d)
                   /\ ~isOpen(failures', lastFailureTime', now + recoveryTimeout)
      ]_vars
  /\ [](isOpen(failures, lastFailureTime, now) => streak >= failureThreshold)

\* a trial call after an elapsed window was rejected and the breaker is open
\* again; an earlier trial was fulfilled
C14_Witness ==
  /\ failures > failureThreshold
  /\ lastFailureTime = now
  /\ now >= recoveryTimeout
  /\ outcome[1] = "thrown"
  /\ outcome[2] = "result"

\* getCachedResult is called for key k in this step
LookupStep(k) == lookup'.no # lookup.no /\ lookup'.key = k

\* the lookup of this step returned the entry of the latest setCachedResult
\* for k, and the entry stays
Served(k) == lookup'.data = put[k].data /\ Find(cache', k) # 0

\* the lookup of this step returned null and no entry for k stays
Absent(k) == lookup'.data = "null" /\ Find(cache', k) = 0

\* C17: the entry set at time T for a key is returned by every lookup at a
\* time before T + ttl, and is absent, and removed, at every lookup at a time
\* after T + ttl.
C17_ServedUntilTtl ==
  [][\A k \in Keys : (LookupStep(k) /\ put[k].at >= 0) =>
       /\ now < put[k].at + ttl => Served(k)
       /\ now > put[k].at + ttl => Absent(k)
    ]_vars

\* the same, for an entry that max further keys set since its last use have
\* not evicted
C17_ServedUntilTtlUnlessEvicted ==
  [][\A k \in Keys : (LookupStep(k) /\ put[k].at >= 0) =>
       /\ (now < put[k].at + ttl /\ ~evicted[k]) => Served(k)
       /\ now > put[k].at + ttl => Absent(k)
    ]_vars

\* a lookup one millisecond after T + ttl found the entry expired
C17_Witness ==
  /\ put[1].at >= 0
  /\ now = put[1].at + ttl + 1
  /\ ~evicted[1]
  /\ lookup = [no |-> 1, key |-> 1, data |-> "null"]
  /\ Find(cache, 1) = 0

\* C18: at the boundary now - T = ttl a lookup treats the entry as expired:
\* it returns null and removes the entry.
C18_ExpiredAtBoundary ==
  [][\A k \in Keys : (LookupStep(k) /\ put[k].at >= 0 /\ now - put[k].at = ttl) =>
       Absent(k)
    ]_vars

\* at the boundary now - T = ttl a lookup returns the entry and keeps it (if
\* capacity has not evicted it); one millisecond later it returns null and
\* removes the entry
C18_ServedAtBoundary ==
  [][\A k \in Keys : (LookupStep(k) /\ put[k].at >= 0) =>
       /\ (now - put[k].at = ttl /\ ~evicted[k]) => Served(k)
       /\ now - put[k].at = ttl + 1 => Absent(k)
    ]_vars

\* a lookup at the boundary returned the entry
C18_Witness ==
  /\ put[1].at >= 0
  /\ now - put[1].at = ttl
  /\ lookup.key = 1
  /\ lookup.no = 1
  /\ lookup.data = put[1].data
  /\ Find(cache, 1) # 0
  /\ cache[Find(cache, 1)].timestamp = put[1].at

\* the external operation of source s is invoked in this step
SourceInvoked(s) ==
  IF s = "reddit" THEN \E c \in Callers : Invoked(c)
  ELSE opc[s] = "idle" /\ opc'[s] = "operation"

\* source s has failed in failureThreshold calls in a row, the latest less
\* than recoveryTimeout ago
Tripped(s) ==
  srcStreak[s] >= failureThreshold /\ now - srcLastFailAt[s] < recoveryTimeout

\* C15: every source (news, Twitter, Reddit) has a breaker of its own: once a
\* source has failed in failureThreshold calls in a row its external
\* operation is not invoked again before the recovery window has elapsed.
C15_EverySourceGuarded ==
  [][\A s \in Sources : Tripped(s) => ~SourceInvoked(s)]_vars

\* the breaker of the Reddit tool does hold back the calls after
\* failureThreshold rejected searches in a row
C15_RedditRejectionsGuarded ==
  [][(streak >= failureThreshold /\ now - lastFailAt < recoveryTimeout) =>
       ~SourceInvoked("reddit")]_vars

\* a call of the Reddit tool under key k returns in this step, and why
RedditReturns(c, why) ==
  /\ rresult'[c].why = why
  /\ \/ bpc[c] # "idle" /\ bpc'[c] = "idle"
     \/ CallStep(c) /\ bpc'[c] = "idle"

\* a call of the Twitter tool returns in this step, and why
TwitterReturns(why) ==
  /\ oresult'["twitter"].why = why
  /\ opc["twitter"] = "operation"
  /\ opc'["twitter"] = "idle"

\* the returns that stand for a failure of the source: the breaker was open,
\* the source call threw, or nothing was collected because the requests
\* failed
FailureReturns == {"open", "error", "degraded"}

\* C16: a call that ends in the neutral fallback because the source failed
\* writes no cache entry for its key.
C16_FailureNeverCached ==
  [][/\ \A c \in Callers, why \in FailureReturns :
          RedditReturns(c, why) => (put' = put /\ Find(cache', rkey'[c]) = 0)
     /\ \A why \in FailureReturns :
          TwitterReturns(why) => twitterCache' = twitterCache
    ]_vars


\* the fragment of source s carries no signal
Neutral(s, f) ==
  CASE s = "news" -> f.sentiment_score = 0 /\ f.confidence = 0
    [] s = "twitter" -> f.data.sentiment_score = 0 /\ f.data.confidence = 0
    [] s = "reddit" -> f.sentiment_score = 0 /\ f.confidence = 0
    [] s = "market" -> ~f.success /\ f.markets = 0 /\ f.technicalData = "undefined"

\* the run is past its research step
Researched == wpc \in {"decision", "tracking"} \/ DOMAIN pipelineResult # {}

\* C19: whichever of the four source calls throw or fail, a run that passed
\* the market filters comes out of the research step with a bundle of four
\* fragments, the fragment of every such source neutral, and goes on to the
\* decision step: it never returns without a decision.
C19_BundleAlwaysComplete ==
  stepResults.marketDiscovery.passed =>
    /\ Researched =>
         /\ stepResults.researchGathering.completed
         /\ DOMAIN stepResults.researchGathering.intelligence = Fragments
         /\ \A s \in Fragments :
              /\ DOMAIN stepResults.researchGathering.intelligence[s] # {}
              /\ sourceOutcome[s] \in {"failed", "threw"} =>
                   Neutral(s, stepResults.researchGathering.intelligence[s])
    /\ DOMAIN pipelineResult # {} =>
         /\ stepResults.decisionAnalysis.completed
         /\ pipelineResult.finalResult.error = "undefined"

\* two source calls threw, the other two failed, and the run is at its
\* decision step
C19_Witness ==
  /\ wpc = "decision"
  /\ sourceOutcome["news"] = "failed"
  /\ sourceOutcome["twitter"] = "threw"
  /\ sourceOutcome["reddit"] = "failed"
  /\ sourceOutcome["market"] = "threw"
  /\ \A s \in Fragments : Neutral(s, stepResults.researchGathering.intelligence[s])

\* C20: a run of the pipeline that reports its trade as executed
\* (tradeExecution.completed) has had the trade validated by the security
\* manager and recorded by recordTradeStart before.
C20_ExecutedWasValidatedAndRecorded ==
  stepResults.tradeExecution.completed =>
    \E p \in Procs : securityValidation[p].valid /\ startCalls[p] > 0


\* the scored decision of the latest analysis
Scored == analysis.called /\ analysis.result.market_filters_passed

\* C25: the confidence the engine returns lies in 0..100.
C25_ConfidenceWithinRange ==
  analysis.called =>
    analysis.result.decision.confidence >= 0 /\ analysis.result.decision.confidence <= 100

\* C26: each of the five scoring factors the engine returns lies in [0,1].
C26_FactorsWithinUnit ==
  analysis.called =>
    \A f \in FactorNames :
      analysis.result.scoring_breakdown[f] >= 0 /\ analysis.result.scoring_breakdown[f] <= Unit

\* the factors 0.8, 0.6, 0.9, 0.5, 0.3
ExampleFactors ==
  [sentiment_edge |-> 8 * (Unit \div 10), technical_momentum |-> 6 * (Unit \div 10),
   liquidity_quality |-> 9 * (Unit \div 10), timing_urgency |-> 5 * (Unit \div 10),
   news_catalyst |-> 3 * (Unit \div 10)]

\* C27: the weights are 0.40, 0.25, 0.20, 0.10, 0.05 and sum to 1; the
\* confidence of a scored decision is the integer nearest to 100 times the
\* weighted sum of its five factors, a half going up; for the factors
\* (0.8, 0.6, 0.9, 0.5, 0.3) it is 72, which is at least 70.
C27_ConfidenceIsRoundedWeightedSum ==
  /\ SCORING_WEIGHTS = [sentiment_edge |-> 40, technical_momentum |-> 25,
                        liquidity_quality |-> 20, timing_urgency |-> 10, news_catalyst |-> 5]
  /\ 40 + 25 + 20 + 10 + 5 = 100
  /\ Confidence(TotalScore(ExampleFactors)) = 72
  /\ 72 >= min_confidence
  /\ Scored =>
       LET b == analysis.result.scoring_breakdown
           sum == 40 * b.sentiment_edge + 25 * b.technical_momentum
                  + 20 * b.liquidity_quality + 10 * b.timing_urgency + 5 * b.news_catalyst
           c == analysis.result.decision.confidence IN
       /\ b.total_score = sum
       /\ (2 * c - 1) * Unit <= 2 * sum
       /\ 2 * sum < (2 * c + 1) * Unit

\* a scored decision whose weighted sum is not a whole number of hundredths
\* and whose confidence reaches the threshold
C27_Witness ==
  /\ Scored
  /\ analysis.result.scoring_breakdown.total_score % Unit # 0
  /\ analysis.result.decision.confidence >= min_confidence

\* the names in the rationale of the latest analysis
Named == {analysis.result.decision.reasoning[i] : i \in DOMAIN analysis.result.decision.reasoning}

\* the filters the market of the latest analysis fails
Failing ==
  LET m == analysis.market IN
  {n \in {"Insufficient liquidity", "Too much time until close", "Order book not enabled",
          "Insufficient daily volume", "Spread too wide"} :
     \/ n = "Insufficient liquidity" /\ m.liquidity < 1000
     \/ n = "Too much time until close" /\ m.timeToClose > 72 * HourMs
     \/ n = "Order book not enabled" /\ ~m.orderBookEnabled
     \/ n = "Insufficient daily volume" /\ m.volume24h < 500
     \/ n = "Spread too wide" /\ m.spread > 500}

\* C28: when a market fails any of the five filters the decision is NONE
\* with confidence 0 and position size 0, and its rationale names every
\* filter that failed and none that passed.
C28_EveryFailedFilterNamed ==
  (analysis.called /\ Failing # {}) =>
    /\ analysis.result.decision.action = "NONE"
    /\ analysis.result.decision.confidence = 0
    /\ analysis.result.decision.position_size = 0
    /\ ~analysis.result.market_filters_passed
    /\ Named = Failing \cup {"Market filters failed"}

\* a market of liquidity 500 that fails a later filter as well
C28_Witness ==
  /\ analysis.called
  /\ analysis.market.liquidity = 500
  /\ "Insufficient liquidity" \in Named
  /\ "Spread too wide" \in Named
  /\ ~analysis.market.orderBookEnabled

\* the condition of each strategy on the latest scored decision
NewsCondition ==
  /\ analysis.intelligence.newsIntelligence.breaking_news
  /\ 10 * analysis.result.scoring_breakdown.news_catalyst > 6 * Unit
  /\ 10 * analysis.result.scoring_breakdown.sentiment_edge > 3 * Unit

ArbitrageCondition ==
  /\ 100 * analysis.result.scoring_breakdown.sentiment_edge > 20 * Unit
  /\ analysis.market.liquidity >= 2000
  /\ analysis.market.timeToClose >= 12 * HourMs

SpecDryRun == InitDryRun /\ [][Next]_vars

\* the pipeline with the toggle either way
SpecPipelineDryRun == InitDryRun /\ [][NextPipeline]_vars

\* C21: with the dry-run toggle enabled no invocation of the execution tool
\* reaches the on-chain submission (the write_contract call).
C21_DryRunSkipsSubmission ==
  dryRunMode => \A p \in DOMAIN pc : pc[p] # "submit"

\* the four actions of a decision
Actions == {"BUY", "SELL", "HOLD", "NONE"}

\* x is a number within lo..hi
Within(x, lo, hi) == x.type = "number" /\ x.value >= lo /\ x.value <= hi

\* C22: a decision with action BUY or SELL that step 4 of the pipeline
\* takes up for execution has confidence >= 70.
C22_TradesAreConfident ==
  stepResults.tradeExecution.attempted =>
    stepResults.decisionAnalysis.decision.confidence >= min_confidence

\* C23: the decision makeAutonomousDecision returns has an action among
\* BUY, SELL, HOLD, NONE, a confidence in [0,100] and, when it has an
\* amount, an amount in [0, 100].
C23_DecisionIsValid ==
  autonomous.called =>
    /\ autonomous.decision.action.type = "string"
    /\ autonomous.decision.action.text \in Actions
    /\ Within(autonomous.decision.confidence, 0, 100)
    /\ autonomous.decision.amount.type # "undefined" =>
         Within(autonomous.decision.amount, 0, maxSingleTrade)

\* the service gave no response that validates: none at all, or one with an
\* action outside the four values or a confidence that is no number
Malformed(service) ==
  \/ service.kind \in {"threw", "text", "unparsable"}
  \/ /\ service.kind = "parsed"
     /\ \/ service.response.action.type # "string"
        \/ service.response.action.text \notin Actions
        \/ service.response.confidence.type # "number"

\* C24: the decision made when the service throws or answers with
\* unparsable or malformed output is the decision made from the same
\* intelligence when the service is absent.
C24_MalformedAsAbsent ==
  (autonomous.called /\ Malformed(autonomous.service)) =>
    autonomous.decision = makeAutonomousDecision(autonomous.intelligence, [kind |-> "absent"])

\* C30: the position size of a decision is at least 0 and at most the
\* smaller of its strategy's maximum (75 for breaking_news_hunter, 100
\* otherwise) and the single-trade cap of 100, for the rule engine as for
\* the language-model response and the fallback.
C30_PositionWithinCaps ==
  /\ analysis.called =>
       LET d == analysis.result.decision
           cap == Min(IF d.strategy = "breaking_news_hunter" THEN 75 ELSE 100, 100) IN
       d.position_size >= 0 /\ d.position_size <= cap * SizeUnit
  /\ autonomous.called =>
       Within(PositionSize(autonomous.decision), 0, 100)

\* a response asked for 500 and the decision is cut to the cap
C30_Witness ==
  /\ autonomous.called
  /\ autonomous.service.kind = "parsed"
  /\ autonomous.service.response.amount = Num(500)
  /\ autonomous.decision.action = Str("BUY")
  /\ PositionSize(autonomous.decision) = Num(100)


\* invocations one after the other within one calendar day, with any amount
\* of the input schema; the watches of the submitted trades have not
\* reported yet
NextSlots ==
  \/ \E amt \in AmountInputs : Execute(1, amt, MaxTrades)
  \/ ExecStep(1, MaxTrades)

SpecSlots == Init /\ [][NextSlots]_vars

\* the invocations that have called recordTradeStart and not yet recordTradeEnd
InFlight == {p \in Procs : startCalls[p] > endCalls[p]}

\* C35: concurrentTradesCount is the number of invocations that have called
\* recordTradeStart and not yet recordTradeEnd, and no invocation calls
\* recordTradeEnd without having called recordTradeStart.
C35_CountIsInFlight ==
  /\ concurrentTradesCount = Cardinality(InFlight)
  /\ \A p \in Procs : endCalls[p] <= startCalls[p]

\* C36: the trade records in PENDING status are never more than
\* maxConcurrentTrades.
C36_PendingWithinSlots ==
  Cardinality({t \in TradeIds : status[t] = "PENDING"}) <= maxConcurrentTrades

\* C37: an invocation that returned through the catch with the
\* insufficient-balance error of the balance check has activated the
\* emergency stop.
C37_CriticalFailureStops ==
  \A p \in Procs :
    (returned[p].path = "error" /\ returned[p].error = MsgInsufficientBalance) =>
      emergencyStopActive

\* C38: the synchronous path issues the FAILED write only for an execution
\* whose returned success is false.
C38_FailedWriteMeansFailure ==
  \A p \in Procs : pc[p] = "markFailed" => ~Succeeded(executionResult[p])


\* every response so far was a rate-limit error
AllRateLimited == \A i \in DOMAIN braveResponses : braveResponses[i] = 429

\* C34: against a backend that always answers 429 searchBraveAPI sends
\* exactly 4 requests, waits with base delays of 2 s, 4 s and 8 s between
\* them and returns null; when its first request fails otherwise it sends
\* exactly 1 request and returns null.  It never sends more than 4 requests.
C34_BoundedRetries ==
  /\ Len(braveResponses) <= braveMaxRetries + 1
  /\ (bravePc = "done" /\ braveResponses # <<>> /\ AllRateLimited) =>
       /\ Len(braveResponses) = 4
       /\ [i \in DOMAIN braveWaits |-> braveWaits[i][1]] = <<2000, 4000, 8000>>
       /\ braveResult = "null"
  /\ (bravePc = "done" /\ braveResponses # <<>> /\ braveResponses[1] \notin {200, 429}) =>
       /\ Len(braveResponses) = 1
       /\ braveResult = "null"

\* four rate-limited requests and the call has returned null
C34_Witness ==
  /\ bravePc = "done"
  /\ braveResponses = <<429, 429, 429, 429>>
  /\ braveResult = "null"


\* C33: a run of the pipeline always terminates, whatever its collaborators
\* do: a run that has started returns.
C33_ProcessingTerminates == (wpc # "idle") ~> (wpc = "idle")


\* the markets of a sequence
Range(seq) == {seq[k] : k \in DOMAIN seq}

\* the iteration of slot i has chosen its top opportunities
Chosen(i) == ipc[i] \in {"pipeline", "delay"}

C32_TopFiveInOrder ==
  /\ [](\A i \in Slots : Chosen(i) =>
          LET top == topOpportunities[i]
              opportunities == {id \in Range(allMarkets[i]) : HighOpportunity(MarketData[id])} IN
          /\ Len(top) <= 5
          /\ Len(top) = Min(5, Cardinality(opportunities))
          /\ Range(top) \subseteq opportunities
          /\ Cardinality(Range(top)) = Len(top)
          /\ \A k, l \in DOMAIN top : k < l => OpportunityScore(top[k]) >= OpportunityScore(top[l])
          /\ \A id \in opportunities \ Range(top) : \A k \in DOMAIN top :
               OpportunityScore(top[k]) >= OpportunityScore(id)
          /\ position[i] \in DOMAIN top)
  /\ [][\A i \in Slots : (Chosen(i) /\ ipc'[i] = "pipeline" /\ ipc[i] # "pipeline") =>
          ipc[i] = "delay" /\ position'[i] = position[i] + 1]_vars

\* the fifth of five markets is in the pipeline, a sixth opportunity is left out
C32_Witness ==
  \E i \in Slots :
    /\ ipc[i] = "pipeline"
    /\ position[i] = 5
    /\ Len(topOpportunities[i]) = 5
    /\ Cardinality({id \in Range(allMarkets[i]) : HighOpportunity(MarketData[id])}) = 6

\* C39: at most one iteration is in flight at any time.
C39_IterationsNeverOverlap ==
  Cardinality({i \in Slots : ipc[i] \notin {"idle", "done"}}) <= 1

====
